---- MODULE Spec2Model ----
(***************************************************************************)
(* Model of the chatbot-leis-sc repository.                                *)
(*                                                                         *)
(*   - src/src/rag_service.py : the query service (initialize_chromadb,    *)
(*     classify_intent, get_context, get_response), specification Spec.    *)
(*   - src/src/data_prep.py   : the ingestion run (module-level cleanup,   *)
(*     processar_e_salvar_leis), specification SpecIngest, and             *)
(*     SpecIngestLive with the fairness of the batch loop; its pure        *)
(*     functions chunk_text_optimized, normalize_law_id and                *)
(*     extrair_texto_de_html, specifications SpecChunk, SpecNormalize and  *)
(*     SpecExtract.                                                        *)
(*   - src/app_web.py         : the Streamlit session (setup_chatbot, the  *)
(*     query handling block, clear_chat_history), specification SpecApp.   *)
(*                                                                         *)
(* Python strings that the code inspects (identifiers, queries, LLM        *)
(* outputs) are sequences of one-character strings, so that strip, upper,  *)
(* startswith, split, the substring test and the regular expressions are   *)
(* computed as the code computes them.  Strings that the code only passes  *)
(* on (chunk texts, file names, fixed messages) are TLA+ strings.          *)
(***************************************************************************)
EXTENDS Integers, Sequences, FiniteSets, TLC

VARIABLES
    \* ---- rag_service.py module globals
    client,          \* TRUE when the Gemini client object is set, FALSE for None
    VECTOR_INDEX,    \* [set |-> BOOLEAN, rows |-> sequence of vectors]
    DOCUMENTS_MAP,   \* ordered dict: sequence of [id, text, fonte, ID_UNICO]
    \* ---- files on disk (shared by ingestion and service)
    FAISS_FILE,      \* [exists |-> BOOLEAN, rows |-> sequence of vectors]
    MAP_FILE,        \* [exists |-> BOOLEAN, ok |-> BOOLEAN, entries |-> sequence]
    CHUNKS_FILE,     \* [exists |-> BOOLEAN, entries |-> sequence]
    \* ---- one query being served
    pc,              \* position inside get_response / get_context
    req,             \* arguments of the running call
    classOut,        \* outcome of the classifier call
    intent,          \* value returned by classify_intent
    loc,             \* locals of get_context
    gcRet,           \* what get_context returned
    gcArgs,          \* arguments get_context was called with
    genCall,         \* the call to the generation service and its outcome
    resp,            \* what get_response returned
    calls,           \* the calls made while serving the query, in order
    initRet,         \* outcome of the last initialize_chromadb call
    \* ---- one ingestion run (data_prep.py)
    ingPc,           \* position inside the script
    docs,            \* the .html documents found by os.walk, in walk order
    docIdx,          \* number of documents already processed in phase 1
    chunks_data,     \* list of chunk records
    id_counter,      \* next chunk number
    embeddings_list, \* vectors received so far
    batchIdx,        \* index of the batch being embedded (0-based)
    attempt,         \* attempts already made for the current batch
    written,         \* names of the files written during this run
    \* ---- one call of a pure function of data_prep.py: [args, ret, done]
    chunkCall,       \* chunk_text_optimized
    normCall,        \* normalize_law_id
    htmlCall,        \* extrair_texto_de_html
    \* ---- one Streamlit session (app_web.py)
    appPc,           \* position of the script: boot, stopped, ready, asked,
                     \* waiting
    status,          \* value returned by the cached setup_chatbot
    messages,        \* st.session_state.messages: sequence of [role, content]
    initCalls,       \* api keys initialize_chromadb was called with by setup_chatbot
    lastRun          \* how the last script run that handled a query ended

svcVars == <<client, VECTOR_INDEX, DOCUMENTS_MAP, pc, req, classOut, intent,
             loc, gcArgs, gcRet, genCall, resp, calls, initRet>>
fileVars == <<FAISS_FILE, MAP_FILE, CHUNKS_FILE>>
ingVars == <<ingPc, docs, docIdx, chunks_data, id_counter, embeddings_list,
             batchIdx, attempt, written>>
libVars == <<chunkCall, normCall, htmlCall>>
appVars == <<appPc, status, messages, initCalls, lastRun>>
vars == <<svcVars, fileVars, ingVars, libVars, appVars>>

Min(a, b) == IF a <= b THEN a ELSE b
SetMin(S) == CHOOSE i \in S : \A j \in S : i <= j
SetMax(S) == CHOOSE i \in S : \A j \in S : j <= i

(***************************************************************************)
(* Character tables of Python 3.11 (Unicode 14.0).  A string is a sequence *)
(* of characters; a character that cannot be written in a string of this   *)
(* notation (the grave accent and most characters above U+00FF) is named   *)
(* by its code point, as "U+0178".                                         *)
(***************************************************************************)
\* the characters str.isspace() accepts, which are those \s matches and
\* str.strip() removes
WHITESPACE ==
  { "\t", "\n", "", "\f", "\r", "", "", "", "", " ", "", " ", " ",
    "U+2000", "U+2001", "U+2002", "U+2003", "U+2004", "U+2005", "U+2006",
    "U+2007", "U+2008", "U+2009", "U+200A", "U+2028", "U+2029", "U+202F",
    "U+205F", "U+3000" }

\* the characters \d matches, in code point order: they come in runs of ten,
\* and int() gives the character at place i the value (i - 1) % 10
DIGIT_VALUES ==
  << "0", "1", "2", "3", "4", "5", "6", "7", "8", "9", "U+0660", "U+0661",
     "U+0662", "U+0663", "U+0664", "U+0665", "U+0666", "U+0667", "U+0668",
     "U+0669", "۰", "۱", "۲", "۳", "۴", "۵", "۶", "۷", "۸", "۹", "߀", "߁",
     "߂", "߃", "߄", "߅", "߆", "߇", "߈", "߉", "U+0966", "U+0967", "U+0968",
     "U+0969", "U+096A", "U+096B", "U+096C", "U+096D", "U+096E", "U+096F",
     "০", "১", "২", "৩", "৪", "৫", "৬", "৭", "৮", "৯", "U+0A66", "U+0A67",
     "U+0A68", "U+0A69", "U+0A6A", "U+0A6B", "U+0A6C", "U+0A6D", "U+0A6E",
     "U+0A6F", "૦", "૧", "૨", "૩", "૪", "૫", "૬", "૭", "૮", "૯", "U+0B66",
     "U+0B67", "U+0B68", "U+0B69", "U+0B6A", "U+0B6B", "U+0B6C", "U+0B6D",
     "U+0B6E", "U+0B6F", "௦", "௧", "௨", "௩", "௪", "௫", "௬", "௭", "௮", "௯",
     "U+0C66", "U+0C67", "U+0C68", "U+0C69", "U+0C6A", "U+0C6B", "U+0C6C",
     "U+0C6D", "U+0C6E", "U+0C6F", "೦", "೧", "೨", "೩", "೪", "೫", "೬", "೭",
     "೮", "೯", "U+0D66", "U+0D67", "U+0D68", "U+0D69", "U+0D6A", "U+0D6B",
     "U+0D6C", "U+0D6D", "U+0D6E", "U+0D6F", "෦", "෧", "෨", "෩", "෪", "෫",
     "෬", "෭", "෮", "෯", "U+0E50", "U+0E51", "U+0E52", "U+0E53", "U+0E54",
     "U+0E55", "U+0E56", "U+0E57", "U+0E58", "U+0E59", "໐", "໑", "໒", "໓",
     "໔", "໕", "໖", "໗", "໘", "໙", "U+0F20", "U+0F21", "U+0F22", "U+0F23",
     "U+0F24", "U+0F25", "U+0F26", "U+0F27", "U+0F28", "U+0F29", "U+1040",
     "U+1041", "U+1042", "U+1043", "U+1044", "U+1045", "U+1046", "U+1047",
     "U+1048", "U+1049", "႐", "႑", "႒", "႓", "႔", "႕", "႖", "႗", "႘", "႙",
     "០", "១", "២", "៣", "៤", "៥", "៦", "៧", "៨", "៩", "U+1810", "U+1811",
     "U+1812", "U+1813", "U+1814", "U+1815", "U+1816", "U+1817", "U+1818",
     "U+1819", "U+1946", "U+1947", "U+1948", "U+1949", "U+194A", "U+194B",
     "U+194C", "U+194D", "U+194E", "U+194F", "᧐", "᧑", "᧒", "᧓", "᧔", "᧕",
     "᧖", "᧗", "᧘", "᧙", "᪀", "᪁", "᪂", "᪃", "᪄", "᪅", "᪆", "᪇", "᪈", "᪉",
     "᪐", "᪑", "᪒", "᪓", "᪔", "᪕", "᪖", "᪗", "᪘", "᪙", "U+1B50", "U+1B51",
     "U+1B52", "U+1B53", "U+1B54", "U+1B55", "U+1B56", "U+1B57", "U+1B58",
     "U+1B59", "᮰", "᮱", "᮲", "᮳", "᮴", "᮵", "᮶", "᮷", "᮸", "᮹", "U+1C40",
     "U+1C41", "U+1C42", "U+1C43", "U+1C44", "U+1C45", "U+1C46", "U+1C47",
     "U+1C48", "U+1C49", "U+1C50", "U+1C51", "U+1C52", "U+1C53", "U+1C54",
     "U+1C55", "U+1C56", "U+1C57", "U+1C58", "U+1C59", "U+A620", "U+A621",
     "U+A622", "U+A623", "U+A624", "U+A625", "U+A626", "U+A627", "U+A628",
     "U+A629", "꣐", "꣑", "꣒", "꣓", "꣔", "꣕", "꣖", "꣗", "꣘", "꣙", "U+A900",
     "U+A901", "U+A902", "U+A903", "U+A904", "U+A905", "U+A906", "U+A907",
     "U+A908", "U+A909", "꧐", "꧑", "꧒", "꧓", "꧔", "꧕", "꧖", "꧗", "꧘", "꧙",
     "꧰", "꧱", "꧲", "꧳", "꧴", "꧵", "꧶", "꧷", "꧸", "꧹", "U+AA50", "U+AA51",
     "U+AA52", "U+AA53", "U+AA54", "U+AA55", "U+AA56", "U+AA57", "U+AA58",
     "U+AA59", "꯰", "꯱", "꯲", "꯳", "꯴", "꯵", "꯶", "꯷", "꯸", "꯹", "U+FF10",
     "U+FF11", "U+FF12", "U+FF13", "U+FF14", "U+FF15", "U+FF16", "U+FF17",
     "U+FF18", "U+FF19", "U+104A0", "U+104A1", "U+104A2", "U+104A3",
     "U+104A4", "U+104A5", "U+104A6", "U+104A7", "U+104A8", "U+104A9",
     "U+10D30", "U+10D31", "U+10D32", "U+10D33", "U+10D34", "U+10D35",
     "U+10D36", "U+10D37", "U+10D38", "U+10D39", "U+11066", "U+11067",
     "U+11068", "U+11069", "U+1106A", "U+1106B", "U+1106C", "U+1106D",
     "U+1106E", "U+1106F", "U+110F0", "U+110F1", "U+110F2", "U+110F3",
     "U+110F4", "U+110F5", "U+110F6", "U+110F7", "U+110F8", "U+110F9",
     "U+11136", "U+11137", "U+11138", "U+11139", "U+1113A", "U+1113B",
     "U+1113C", "U+1113D", "U+1113E", "U+1113F", "U+111D0", "U+111D1",
     "U+111D2", "U+111D3", "U+111D4", "U+111D5", "U+111D6", "U+111D7",
     "U+111D8", "U+111D9", "U+112F0", "U+112F1", "U+112F2", "U+112F3",
     "U+112F4", "U+112F5", "U+112F6", "U+112F7", "U+112F8", "U+112F9",
     "U+11450", "U+11451", "U+11452", "U+11453", "U+11454", "U+11455",
     "U+11456", "U+11457", "U+11458", "U+11459", "U+114D0", "U+114D1",
     "U+114D2", "U+114D3", "U+114D4", "U+114D5", "U+114D6", "U+114D7",
     "U+114D8", "U+114D9", "U+11650", "U+11651", "U+11652", "U+11653",
     "U+11654", "U+11655", "U+11656", "U+11657", "U+11658", "U+11659",
     "U+116C0", "U+116C1", "U+116C2", "U+116C3", "U+116C4", "U+116C5",
     "U+116C6", "U+116C7", "U+116C8", "U+116C9", "U+11730", "U+11731",
     "U+11732", "U+11733", "U+11734", "U+11735", "U+11736", "U+11737",
     "U+11738", "U+11739", "U+118E0", "U+118E1", "U+118E2", "U+118E3",
     "U+118E4", "U+118E5", "U+118E6", "U+118E7", "U+118E8", "U+118E9",
     "U+11950", "U+11951", "U+11952", "U+11953", "U+11954", "U+11955",
     "U+11956", "U+11957", "U+11958", "U+11959", "U+11C50", "U+11C51",
     "U+11C52", "U+11C53", "U+11C54", "U+11C55", "U+11C56", "U+11C57",
     "U+11C58", "U+11C59", "U+11D50", "U+11D51", "U+11D52", "U+11D53",
     "U+11D54", "U+11D55", "U+11D56", "U+11D57", "U+11D58", "U+11D59",
     "U+11DA0", "U+11DA1", "U+11DA2", "U+11DA3", "U+11DA4", "U+11DA5",
     "U+11DA6", "U+11DA7", "U+11DA8", "U+11DA9", "U+16A60", "U+16A61",
     "U+16A62", "U+16A63", "U+16A64", "U+16A65", "U+16A66", "U+16A67",
     "U+16A68", "U+16A69", "U+16AC0", "U+16AC1", "U+16AC2", "U+16AC3",
     "U+16AC4", "U+16AC5", "U+16AC6", "U+16AC7", "U+16AC8", "U+16AC9",
     "U+16B50", "U+16B51", "U+16B52", "U+16B53", "U+16B54", "U+16B55",
     "U+16B56", "U+16B57", "U+16B58", "U+16B59", "U+1D7CE", "U+1D7CF",
     "U+1D7D0", "U+1D7D1", "U+1D7D2", "U+1D7D3", "U+1D7D4", "U+1D7D5",
     "U+1D7D6", "U+1D7D7", "U+1D7D8", "U+1D7D9", "U+1D7DA", "U+1D7DB",
     "U+1D7DC", "U+1D7DD", "U+1D7DE", "U+1D7DF", "U+1D7E0", "U+1D7E1",
     "U+1D7E2", "U+1D7E3", "U+1D7E4", "U+1D7E5", "U+1D7E6", "U+1D7E7",
     "U+1D7E8", "U+1D7E9", "U+1D7EA", "U+1D7EB", "U+1D7EC", "U+1D7ED",
     "U+1D7EE", "U+1D7EF", "U+1D7F0", "U+1D7F1", "U+1D7F2", "U+1D7F3",
     "U+1D7F4", "U+1D7F5", "U+1D7F6", "U+1D7F7", "U+1D7F8", "U+1D7F9",
     "U+1D7FA", "U+1D7FB", "U+1D7FC", "U+1D7FD", "U+1D7FE", "U+1D7FF",
     "U+1E140", "U+1E141", "U+1E142", "U+1E143", "U+1E144", "U+1E145",
     "U+1E146", "U+1E147", "U+1E148", "U+1E149", "U+1E2F0", "U+1E2F1",
     "U+1E2F2", "U+1E2F3", "U+1E2F4", "U+1E2F5", "U+1E2F6", "U+1E2F7",
     "U+1E2F8", "U+1E2F9", "U+1E950", "U+1E951", "U+1E952", "U+1E953",
     "U+1E954", "U+1E955", "U+1E956", "U+1E957", "U+1E958", "U+1E959",
     "U+1FBF0", "U+1FBF1", "U+1FBF2", "U+1FBF3", "U+1FBF4", "U+1FBF5",
     "U+1FBF6", "U+1FBF7", "U+1FBF8", "U+1FBF9" >>

\* the characters str.upper() changes: from[i] becomes to[i], and xfrom[i]
\* becomes the characters x1[i], x2[i], x3[i] ("" where it becomes fewer)
UPPER_CASE ==
  [ from |-> << "a", "b", "c", "d", "e", "f", "g", "h", "i", "j", "k", "l", "m",
             "n", "o", "p", "q", "r", "s", "t", "u", "v", "w", "x", "y", "z",
             "µ", "à", "á", "â", "ã", "ä", "å", "æ", "ç", "è", "é", "ê", "ë",
             "ì", "í", "î", "ï", "ð", "ñ", "ò", "ó", "ô", "õ", "ö", "ø", "ù",
             "ú", "û", "ü", "ý", "þ", "ÿ", "U+0101", "U+0103", "U+0105",
             "U+0107", "U+0109", "U+010B", "U+010D", "U+010F", "U+0111",
             "U+0113", "U+0115", "U+0117", "U+0119", "U+011B", "U+011D",
             "U+011F", "U+0121", "U+0123", "U+0125", "U+0127", "U+0129",
             "U+012B", "U+012D", "U+012F", "U+0131", "U+0133", "U+0135",
             "U+0137", "U+013A", "U+013C", "U+013E", "U+0140", "U+0142",
             "U+0144", "U+0146", "U+0148", "U+014B", "U+014D", "U+014F",
             "U+0151", "U+0153", "U+0155", "U+0157", "U+0159", "U+015B",
             "U+015D", "U+015F", "U+0161", "U+0163", "U+0165", "U+0167",
             "U+0169", "U+016B", "U+016D", "U+016F", "U+0171", "U+0173",
             "U+0175", "U+0177", "U+017A", "U+017C", "U+017E", "U+017F", "ƀ",
             "ƃ", "ƅ", "ƈ", "ƌ", "ƒ", "ƕ", "ƙ", "ƚ", "ƞ", "ơ", "ƣ", "ƥ", "ƨ",
             "ƭ", "ư", "ƴ", "ƶ", "ƹ", "ƽ", "ƿ", "ǅ", "ǆ", "ǈ", "ǉ", "ǋ", "ǌ",
             "ǎ", "ǐ", "ǒ", "ǔ", "ǖ", "ǘ", "ǚ", "ǜ", "ǝ", "ǟ", "ǡ", "ǣ", "ǥ",
             "ǧ", "ǩ", "ǫ", "ǭ", "ǯ", "ǲ", "ǳ", "ǵ", "ǹ", "ǻ", "ǽ", "ǿ",
             "U+0201", "U+0203", "U+0205", "U+0207", "U+0209", "U+020B",
             "U+020D", "U+020F", "U+0211", "U+0213", "U+0215", "U+0217",
             "U+0219", "U+021B", "U+021D", "U+021F", "U+0223", "U+0225",
             "U+0227", "U+0229", "U+022B", "U+022D", "U+022F", "U+0231",
             "U+0233", "U+023C", "U+023F", "U+0240", "U+0242", "U+0247",
             "U+0249", "U+024B", "U+024D", "U+024F", "U+0250", "U+0251",
             "U+0252", "U+0253", "U+0254", "U+0256", "U+0257", "U+0259",
             "U+025B", "U+025C", "U+0260", "U+0261", "U+0263", "U+0265",
             "U+0266", "U+0268", "U+0269", "U+026A", "U+026B", "U+026C",
             "U+026F", "U+0271", "U+0272", "U+0275", "U+027D", "ʀ", "ʂ", "ʃ",
             "ʇ", "ʈ", "ʉ", "ʊ", "ʋ", "ʌ", "ʒ", "ʝ", "ʞ", "U+0345", "U+0371",
             "U+0373", "U+0377", "U+037B", "U+037C", "U+037D", "ά", "έ", "ή",
             "ί", "α", "β", "γ", "δ", "ε", "ζ", "η", "θ", "ι", "κ", "λ", "μ",
             "ν", "ξ", "ο", "π", "ρ", "ς", "σ", "τ", "υ", "φ", "χ", "ψ", "ω",
             "ϊ", "ϋ", "ό", "ύ", "ώ", "ϐ", "ϑ", "ϕ", "ϖ", "ϗ", "ϙ", "ϛ", "ϝ",
             "ϟ", "ϡ", "ϣ", "ϥ", "ϧ", "ϩ", "ϫ", "ϭ", "ϯ", "ϰ", "ϱ", "ϲ", "ϳ",
             "ϵ", "ϸ", "ϻ", "U+0430", "U+0431", "U+0432", "U+0433", "U+0434",
             "U+0435", "U+0436", "U+0437", "U+0438", "U+0439", "U+043A",
             "U+043B", "U+043C", "U+043D", "U+043E", "U+043F", "U+0440",
             "U+0441", "U+0442", "U+0443", "U+0444", "U+0445", "U+0446",
             "U+0447", "U+0448", "U+0449", "U+044A", "U+044B", "U+044C",
             "U+044D", "U+044E", "U+044F", "U+0450", "U+0451", "U+0452",
             "U+0453", "U+0454", "U+0455", "U+0456", "U+0457", "U+0458",
             "U+0459", "U+045A", "U+045B", "U+045C", "U+045D", "U+045E",
             "U+045F", "U+0461", "U+0463", "U+0465", "U+0467", "U+0469",
             "U+046B", "U+046D", "U+046F", "U+0471", "U+0473", "U+0475",
             "U+0477", "U+0479", "U+047B", "U+047D", "U+047F", "ҁ", "ҋ", "ҍ",
             "ҏ", "ґ", "ғ", "ҕ", "җ", "ҙ", "қ", "ҝ", "ҟ", "ҡ", "ң", "ҥ", "ҧ",
             "ҩ", "ҫ", "ҭ", "ү", "ұ", "ҳ", "ҵ", "ҷ", "ҹ", "һ", "ҽ", "ҿ", "ӂ",
             "ӄ", "ӆ", "ӈ", "ӊ", "ӌ", "ӎ", "ӏ", "ӑ", "ӓ", "ӕ", "ӗ", "ә", "ӛ",
             "ӝ", "ӟ", "ӡ", "ӣ", "ӥ", "ӧ", "ө", "ӫ", "ӭ", "ӯ", "ӱ", "ӳ", "ӵ",
             "ӷ", "ӹ", "ӻ", "ӽ", "ӿ", "U+0501", "U+0503", "U+0505", "U+0507",
             "U+0509", "U+050B", "U+050D", "U+050F", "U+0511", "U+0513",
             "U+0515", "U+0517", "U+0519", "U+051B", "U+051D", "U+051F",
             "U+0521", "U+0523", "U+0525", "U+0527", "U+0529", "U+052B",
             "U+052D", "U+052F", "U+0561", "U+0562", "U+0563", "U+0564",
             "U+0565", "U+0566", "U+0567", "U+0568", "U+0569", "U+056A",
             "U+056B", "U+056C", "U+056D", "U+056E", "U+056F", "U+0570",
             "U+0571", "U+0572", "U+0573", "U+0574", "U+0575", "U+0576",
             "U+0577", "U+0578", "U+0579", "U+057A", "U+057B", "U+057C",
             "U+057D", "U+057E", "U+057F", "ր", "ց", "ւ", "փ", "ք", "օ", "ֆ",
             "ა", "ბ", "გ", "დ", "ე", "ვ", "ზ", "თ", "ი", "კ", "ლ", "მ", "ნ",
             "ო", "პ", "ჟ", "რ", "ს", "ტ", "უ", "ფ", "ქ", "ღ", "ყ", "შ", "ჩ",
             "ც", "ძ", "წ", "ჭ", "ხ", "ჯ", "ჰ", "ჱ", "ჲ", "ჳ", "ჴ", "ჵ", "ჶ",
             "ჷ", "ჸ", "ჹ", "ჺ", "ჽ", "ჾ", "ჿ", "ᏸ", "ᏹ", "ᏺ", "ᏻ", "ᏼ", "ᏽ",
             "ᲀ", "ᲁ", "ᲂ", "ᲃ", "ᲄ", "ᲅ", "ᲆ", "ᲇ", "ᲈ", "U+1D79", "U+1D7D",
             "ᶎ", "U+1E01", "U+1E03", "U+1E05", "U+1E07", "U+1E09", "U+1E0B",
             "U+1E0D", "U+1E0F", "U+1E11", "U+1E13", "U+1E15", "U+1E17",
             "U+1E19", "U+1E1B", "U+1E1D", "U+1E1F", "U+1E21", "U+1E23",
             "U+1E25", "U+1E27", "U+1E29", "U+1E2B", "U+1E2D", "U+1E2F",
             "U+1E31", "U+1E33", "U+1E35", "U+1E37", "U+1E39", "U+1E3B",
             "U+1E3D", "U+1E3F", "U+1E41", "U+1E43", "U+1E45", "U+1E47",
             "U+1E49", "U+1E4B", "U+1E4D", "U+1E4F", "U+1E51", "U+1E53",
             "U+1E55", "U+1E57", "U+1E59", "U+1E5B", "U+1E5D", "U+1E5F",
             "U+1E61", "U+1E63", "U+1E65", "U+1E67", "U+1E69", "U+1E6B",
             "U+1E6D", "U+1E6F", "U+1E71", "U+1E73", "U+1E75", "U+1E77",
             "U+1E79", "U+1E7B", "U+1E7D", "U+1E7F", "ẁ", "ẃ", "ẅ", "ẇ", "ẉ",
             "ẋ", "ẍ", "ẏ", "ẑ", "ẓ", "ẕ", "ẛ", "ạ", "ả", "ấ", "ầ", "ẩ", "ẫ",
             "ậ", "ắ", "ằ", "ẳ", "ẵ", "ặ", "ẹ", "ẻ", "ẽ", "ế", "ề", "ể", "ễ",
             "ệ", "ỉ", "ị", "ọ", "ỏ", "ố", "ồ", "ổ", "ỗ", "ộ", "ớ", "ờ", "ở",
             "ỡ", "ợ", "ụ", "ủ", "ứ", "ừ", "ử", "ữ", "ự", "ỳ", "ỵ", "ỷ", "ỹ",
             "ỻ", "ỽ", "ỿ", "U+1F00", "U+1F01", "U+1F02", "U+1F03", "U+1F04",
             "U+1F05", "U+1F06", "U+1F07", "U+1F10", "U+1F11", "U+1F12",
             "U+1F13", "U+1F14", "U+1F15", "U+1F20", "U+1F21", "U+1F22",
             "U+1F23", "U+1F24", "U+1F25", "U+1F26", "U+1F27", "U+1F30",
             "U+1F31", "U+1F32", "U+1F33", "U+1F34", "U+1F35", "U+1F36",
             "U+1F37", "U+1F40", "U+1F41", "U+1F42", "U+1F43", "U+1F44",
             "U+1F45", "U+1F51", "U+1F53", "U+1F55", "U+1F57", "U+1F60",
             "U+1F61", "U+1F62", "U+1F63", "U+1F64", "U+1F65", "U+1F66",
             "U+1F67", "U+1F70", "U+1F71", "U+1F72", "U+1F73", "U+1F74",
             "U+1F75", "U+1F76", "U+1F77", "U+1F78", "U+1F79", "U+1F7A",
             "U+1F7B", "U+1F7C", "U+1F7D", "ᾰ", "ᾱ", "ι", "ῐ", "ῑ", "ῠ", "ῡ",
             "ῥ", "U+214E", "U+2170", "U+2171", "U+2172", "U+2173", "U+2174",
             "U+2175", "U+2176", "U+2177", "U+2178", "U+2179", "U+217A",
             "U+217B", "U+217C", "U+217D", "U+217E", "U+217F", "ↄ", "ⓐ", "ⓑ",
             "ⓒ", "ⓓ", "ⓔ", "ⓕ", "ⓖ", "ⓗ", "ⓘ", "ⓙ", "ⓚ", "ⓛ", "ⓜ", "ⓝ", "ⓞ",
             "ⓟ", "ⓠ", "ⓡ", "ⓢ", "ⓣ", "ⓤ", "ⓥ", "ⓦ", "ⓧ", "ⓨ", "ⓩ", "U+2C30",
             "U+2C31", "U+2C32", "U+2C33", "U+2C34", "U+2C35", "U+2C36",
             "U+2C37", "U+2C38", "U+2C39", "U+2C3A", "U+2C3B", "U+2C3C",
             "U+2C3D", "U+2C3E", "U+2C3F", "U+2C40", "U+2C41", "U+2C42",
             "U+2C43", "U+2C44", "U+2C45", "U+2C46", "U+2C47", "U+2C48",
             "U+2C49", "U+2C4A", "U+2C4B", "U+2C4C", "U+2C4D", "U+2C4E",
             "U+2C4F", "U+2C50", "U+2C51", "U+2C52", "U+2C53", "U+2C54",
             "U+2C55", "U+2C56", "U+2C57", "U+2C58", "U+2C59", "U+2C5A",
             "U+2C5B", "U+2C5C", "U+2C5D", "U+2C5E", "U+2C5F", "U+2C61",
             "U+2C65", "U+2C66", "U+2C68", "U+2C6A", "U+2C6C", "U+2C73",
             "U+2C76", "ⲁ", "ⲃ", "ⲅ", "ⲇ", "ⲉ", "ⲋ", "ⲍ", "ⲏ", "ⲑ", "ⲓ", "ⲕ",
             "ⲗ", "ⲙ", "ⲛ", "ⲝ", "ⲟ", "ⲡ", "ⲣ", "ⲥ", "ⲧ", "ⲩ", "ⲫ", "ⲭ", "ⲯ",
             "ⲱ", "ⲳ", "ⲵ", "ⲷ", "ⲹ", "ⲻ", "ⲽ", "ⲿ", "ⳁ", "ⳃ", "ⳅ", "ⳇ", "ⳉ",
             "ⳋ", "ⳍ", "ⳏ", "ⳑ", "ⳓ", "ⳕ", "ⳗ", "ⳙ", "ⳛ", "ⳝ", "ⳟ", "ⳡ", "ⳣ",
             "ⳬ", "ⳮ", "ⳳ", "U+2D00", "U+2D01", "U+2D02", "U+2D03", "U+2D04",
             "U+2D05", "U+2D06", "U+2D07", "U+2D08", "U+2D09", "U+2D0A",
             "U+2D0B", "U+2D0C", "U+2D0D", "U+2D0E", "U+2D0F", "U+2D10",
             "U+2D11", "U+2D12", "U+2D13", "U+2D14", "U+2D15", "U+2D16",
             "U+2D17", "U+2D18", "U+2D19", "U+2D1A", "U+2D1B", "U+2D1C",
             "U+2D1D", "U+2D1E", "U+2D1F", "U+2D20", "U+2D21", "U+2D22",
             "U+2D23", "U+2D24", "U+2D25", "U+2D27", "U+2D2D", "U+A641",
             "U+A643", "U+A645", "U+A647", "U+A649", "U+A64B", "U+A64D",
             "U+A64F", "U+A651", "U+A653", "U+A655", "U+A657", "U+A659",
             "U+A65B", "U+A65D", "U+A65F", "U+A661", "U+A663", "U+A665",
             "U+A667", "U+A669", "U+A66B", "U+A66D", "ꚁ", "ꚃ", "ꚅ", "ꚇ", "ꚉ",
             "ꚋ", "ꚍ", "ꚏ", "ꚑ", "ꚓ", "ꚕ", "ꚗ", "ꚙ", "ꚛ", "U+A723", "U+A725",
             "U+A727", "U+A729", "U+A72B", "U+A72D", "U+A72F", "U+A733",
             "U+A735", "U+A737", "U+A739", "U+A73B", "U+A73D", "U+A73F",
             "U+A741", "U+A743", "U+A745", "U+A747", "U+A749", "U+A74B",
             "U+A74D", "U+A74F", "U+A751", "U+A753", "U+A755", "U+A757",
             "U+A759", "U+A75B", "U+A75D", "U+A75F", "U+A761", "U+A763",
             "U+A765", "U+A767", "U+A769", "U+A76B", "U+A76D", "U+A76F",
             "U+A77A", "U+A77C", "U+A77F", "ꞁ", "ꞃ", "ꞅ", "ꞇ", "ꞌ", "ꞑ", "ꞓ",
             "ꞔ", "ꞗ", "ꞙ", "ꞛ", "ꞝ", "ꞟ", "ꞡ", "ꞣ", "ꞥ", "ꞧ", "ꞩ", "ꞵ", "ꞷ",
             "ꞹ", "ꞻ", "ꞽ", "ꞿ", "ꟁ", "ꟃ", "ꟈ", "ꟊ", "ꟑ", "ꟗ", "ꟙ", "ꟶ",
             "U+AB53", "U+AB70", "U+AB71", "U+AB72", "U+AB73", "U+AB74",
             "U+AB75", "U+AB76", "U+AB77", "U+AB78", "U+AB79", "U+AB7A",
             "U+AB7B", "U+AB7C", "U+AB7D", "U+AB7E", "U+AB7F", "ꮀ", "ꮁ", "ꮂ",
             "ꮃ", "ꮄ", "ꮅ", "ꮆ", "ꮇ", "ꮈ", "ꮉ", "ꮊ", "ꮋ", "ꮌ", "ꮍ", "ꮎ", "ꮏ",
             "ꮐ", "ꮑ", "ꮒ", "ꮓ", "ꮔ", "ꮕ", "ꮖ", "ꮗ", "ꮘ", "ꮙ", "ꮚ", "ꮛ", "ꮜ",
             "ꮝ", "ꮞ", "ꮟ", "ꮠ", "ꮡ", "ꮢ", "ꮣ", "ꮤ", "ꮥ", "ꮦ", "ꮧ", "ꮨ", "ꮩ",
             "ꮪ", "ꮫ", "ꮬ", "ꮭ", "ꮮ", "ꮯ", "ꮰ", "ꮱ", "ꮲ", "ꮳ", "ꮴ", "ꮵ", "ꮶ",
             "ꮷ", "ꮸ", "ꮹ", "ꮺ", "ꮻ", "ꮼ", "ꮽ", "ꮾ", "ꮿ", "U+FF41", "U+FF42",
             "U+FF43", "U+FF44", "U+FF45", "U+FF46", "U+FF47", "U+FF48",
             "U+FF49", "U+FF4A", "U+FF4B", "U+FF4C", "U+FF4D", "U+FF4E",
             "U+FF4F", "U+FF50", "U+FF51", "U+FF52", "U+FF53", "U+FF54",
             "U+FF55", "U+FF56", "U+FF57", "U+FF58", "U+FF59", "U+FF5A",
             "U+10428", "U+10429", "U+1042A", "U+1042B", "U+1042C", "U+1042D",
             "U+1042E", "U+1042F", "U+10430", "U+10431", "U+10432", "U+10433",
             "U+10434", "U+10435", "U+10436", "U+10437", "U+10438", "U+10439",
             "U+1043A", "U+1043B", "U+1043C", "U+1043D", "U+1043E", "U+1043F",
             "U+10440", "U+10441", "U+10442", "U+10443", "U+10444", "U+10445",
             "U+10446", "U+10447", "U+10448", "U+10449", "U+1044A", "U+1044B",
             "U+1044C", "U+1044D", "U+1044E", "U+1044F", "U+104D8", "U+104D9",
             "U+104DA", "U+104DB", "U+104DC", "U+104DD", "U+104DE", "U+104DF",
             "U+104E0", "U+104E1", "U+104E2", "U+104E3", "U+104E4", "U+104E5",
             "U+104E6", "U+104E7", "U+104E8", "U+104E9", "U+104EA", "U+104EB",
             "U+104EC", "U+104ED", "U+104EE", "U+104EF", "U+104F0", "U+104F1",
             "U+104F2", "U+104F3", "U+104F4", "U+104F5", "U+104F6", "U+104F7",
             "U+104F8", "U+104F9", "U+104FA", "U+104FB", "U+10597", "U+10598",
             "U+10599", "U+1059A", "U+1059B", "U+1059C", "U+1059D", "U+1059E",
             "U+1059F", "U+105A0", "U+105A1", "U+105A3", "U+105A4", "U+105A5",
             "U+105A6", "U+105A7", "U+105A8", "U+105A9", "U+105AA", "U+105AB",
             "U+105AC", "U+105AD", "U+105AE", "U+105AF", "U+105B0", "U+105B1",
             "U+105B3", "U+105B4", "U+105B5", "U+105B6", "U+105B7", "U+105B8",
             "U+105B9", "U+105BB", "U+105BC", "U+10CC0", "U+10CC1", "U+10CC2",
             "U+10CC3", "U+10CC4", "U+10CC5", "U+10CC6", "U+10CC7", "U+10CC8",
             "U+10CC9", "U+10CCA", "U+10CCB", "U+10CCC", "U+10CCD", "U+10CCE",
             "U+10CCF", "U+10CD0", "U+10CD1", "U+10CD2", "U+10CD3", "U+10CD4",
             "U+10CD5", "U+10CD6", "U+10CD7", "U+10CD8", "U+10CD9", "U+10CDA",
             "U+10CDB", "U+10CDC", "U+10CDD", "U+10CDE", "U+10CDF", "U+10CE0",
             "U+10CE1", "U+10CE2", "U+10CE3", "U+10CE4", "U+10CE5", "U+10CE6",
             "U+10CE7", "U+10CE8", "U+10CE9", "U+10CEA", "U+10CEB", "U+10CEC",
             "U+10CED", "U+10CEE", "U+10CEF", "U+10CF0", "U+10CF1", "U+10CF2",
             "U+118C0", "U+118C1", "U+118C2", "U+118C3", "U+118C4", "U+118C5",
             "U+118C6", "U+118C7", "U+118C8", "U+118C9", "U+118CA", "U+118CB",
             "U+118CC", "U+118CD", "U+118CE", "U+118CF", "U+118D0", "U+118D1",
             "U+118D2", "U+118D3", "U+118D4", "U+118D5", "U+118D6", "U+118D7",
             "U+118D8", "U+118D9", "U+118DA", "U+118DB", "U+118DC", "U+118DD",
             "U+118DE", "U+118DF", "U+16E60", "U+16E61", "U+16E62", "U+16E63",
             "U+16E64", "U+16E65", "U+16E66", "U+16E67", "U+16E68", "U+16E69",
             "U+16E6A", "U+16E6B", "U+16E6C", "U+16E6D", "U+16E6E", "U+16E6F",
             "U+16E70", "U+16E71", "U+16E72", "U+16E73", "U+16E74", "U+16E75",
             "U+16E76", "U+16E77", "U+16E78", "U+16E79", "U+16E7A", "U+16E7B",
             "U+16E7C", "U+16E7D", "U+16E7E", "U+16E7F", "U+1E922", "U+1E923",
             "U+1E924", "U+1E925", "U+1E926", "U+1E927", "U+1E928", "U+1E929",
             "U+1E92A", "U+1E92B", "U+1E92C", "U+1E92D", "U+1E92E", "U+1E92F",
             "U+1E930", "U+1E931", "U+1E932", "U+1E933", "U+1E934", "U+1E935",
             "U+1E936", "U+1E937", "U+1E938", "U+1E939", "U+1E93A", "U+1E93B",
             "U+1E93C", "U+1E93D", "U+1E93E", "U+1E93F", "U+1E940", "U+1E941",
             "U+1E942", "U+1E943" >>,
    to |->   << "A", "B", "C", "D", "E", "F", "G", "H", "I", "J", "K", "L", "M",
             "N", "O", "P", "Q", "R", "S", "T", "U", "V", "W", "X", "Y", "Z",
             "Μ", "À", "Á", "Â", "Ã", "Ä", "Å", "Æ", "Ç", "È", "É", "Ê", "Ë",
             "Ì", "Í", "Î", "Ï", "Ð", "Ñ", "Ò", "Ó", "Ô", "Õ", "Ö", "Ø", "Ù",
             "Ú", "Û", "Ü", "Ý", "Þ", "U+0178", "U+0100", "U+0102", "U+0104",
             "U+0106", "U+0108", "U+010A", "U+010C", "U+010E", "U+0110",
             "U+0112", "U+0114", "U+0116", "U+0118", "U+011A", "U+011C",
             "U+011E", "U+0120", "U+0122", "U+0124", "U+0126", "U+0128",
             "U+012A", "U+012C", "U+012E", "I", "U+0132", "U+0134", "U+0136",
             "U+0139", "U+013B", "U+013D", "U+013F", "U+0141", "U+0143",
             "U+0145", "U+0147", "U+014A", "U+014C", "U+014E", "U+0150",
             "U+0152", "U+0154", "U+0156", "U+0158", "U+015A", "U+015C",
             "U+015E", "U+0160", "U+0162", "U+0164", "U+0166", "U+0168",
             "U+016A", "U+016C", "U+016E", "U+0170", "U+0172", "U+0174",
             "U+0176", "U+0179", "U+017B", "U+017D", "S", "U+0243", "Ƃ", "Ƅ",
             "Ƈ", "Ƌ", "Ƒ", "Ƕ", "Ƙ", "U+023D", "U+0220", "Ơ", "Ƣ", "Ƥ", "Ƨ",
             "Ƭ", "Ư", "Ƴ", "Ƶ", "Ƹ", "Ƽ", "Ƿ", "Ǆ", "Ǆ", "Ǉ", "Ǉ", "Ǌ", "Ǌ",
             "Ǎ", "Ǐ", "Ǒ", "Ǔ", "Ǖ", "Ǘ", "Ǚ", "Ǜ", "Ǝ", "Ǟ", "Ǡ", "Ǣ", "Ǥ",
             "Ǧ", "Ǩ", "Ǫ", "Ǭ", "Ǯ", "Ǳ", "Ǳ", "Ǵ", "Ǹ", "Ǻ", "Ǽ", "Ǿ",
             "U+0200", "U+0202", "U+0204", "U+0206", "U+0208", "U+020A",
             "U+020C", "U+020E", "U+0210", "U+0212", "U+0214", "U+0216",
             "U+0218", "U+021A", "U+021C", "U+021E", "U+0222", "U+0224",
             "U+0226", "U+0228", "U+022A", "U+022C", "U+022E", "U+0230",
             "U+0232", "U+023B", "U+2C7E", "U+2C7F", "U+0241", "U+0246",
             "U+0248", "U+024A", "U+024C", "U+024E", "U+2C6F", "U+2C6D",
             "U+2C70", "Ɓ", "Ɔ", "Ɖ", "Ɗ", "Ə", "Ɛ", "Ɜ", "Ɠ", "Ɡ", "Ɣ", "Ɥ",
             "Ɦ", "Ɨ", "Ɩ", "Ɪ", "U+2C62", "Ɬ", "Ɯ", "U+2C6E", "Ɲ", "Ɵ",
             "U+2C64", "Ʀ", "Ʂ", "Ʃ", "Ʇ", "Ʈ", "U+0244", "Ʊ", "Ʋ", "U+0245",
             "Ʒ", "Ʝ", "Ʞ", "Ι", "U+0370", "U+0372", "U+0376", "Ͻ", "Ͼ", "Ͽ",
             "Ά", "Έ", "Ή", "Ί", "Α", "Β", "Γ", "Δ", "Ε", "Ζ", "Η", "Θ", "Ι",
             "Κ", "Λ", "Μ", "Ν", "Ξ", "Ο", "Π", "Ρ", "Σ", "Σ", "Τ", "Υ", "Φ",
             "Χ", "Ψ", "Ω", "Ϊ", "Ϋ", "Ό", "Ύ", "Ώ", "Β", "Θ", "Φ", "Π", "Ϗ",
             "Ϙ", "Ϛ", "Ϝ", "Ϟ", "Ϡ", "Ϣ", "Ϥ", "Ϧ", "Ϩ", "Ϫ", "Ϭ", "Ϯ", "Κ",
             "Ρ", "Ϲ", "U+037F", "Ε", "Ϸ", "Ϻ", "U+0410", "U+0411", "U+0412",
             "U+0413", "U+0414", "U+0415", "U+0416", "U+0417", "U+0418",
             "U+0419", "U+041A", "U+041B", "U+041C", "U+041D", "U+041E",
             "U+041F", "U+0420", "U+0421", "U+0422", "U+0423", "U+0424",
             "U+0425", "U+0426", "U+0427", "U+0428", "U+0429", "U+042A",
             "U+042B", "U+042C", "U+042D", "U+042E", "U+042F", "U+0400",
             "U+0401", "U+0402", "U+0403", "U+0404", "U+0405", "U+0406",
             "U+0407", "U+0408", "U+0409", "U+040A", "U+040B", "U+040C",
             "U+040D", "U+040E", "U+040F", "U+0460", "U+0462", "U+0464",
             "U+0466", "U+0468", "U+046A", "U+046C", "U+046E", "U+0470",
             "U+0472", "U+0474", "U+0476", "U+0478", "U+047A", "U+047C",
             "U+047E", "Ҁ", "Ҋ", "Ҍ", "Ҏ", "Ґ", "Ғ", "Ҕ", "Җ", "Ҙ", "Қ", "Ҝ",
             "Ҟ", "Ҡ", "Ң", "Ҥ", "Ҧ", "Ҩ", "Ҫ", "Ҭ", "Ү", "Ұ", "Ҳ", "Ҵ", "Ҷ",
             "Ҹ", "Һ", "Ҽ", "Ҿ", "Ӂ", "Ӄ", "Ӆ", "Ӈ", "Ӊ", "Ӌ", "Ӎ", "Ӏ", "Ӑ",
             "Ӓ", "Ӕ", "Ӗ", "Ә", "Ӛ", "Ӝ", "Ӟ", "Ӡ", "Ӣ", "Ӥ", "Ӧ", "Ө", "Ӫ",
             "Ӭ", "Ӯ", "Ӱ", "Ӳ", "Ӵ", "Ӷ", "Ӹ", "Ӻ", "Ӽ", "Ӿ", "U+0500",
             "U+0502", "U+0504", "U+0506", "U+0508", "U+050A", "U+050C",
             "U+050E", "U+0510", "U+0512", "U+0514", "U+0516", "U+0518",
             "U+051A", "U+051C", "U+051E", "U+0520", "U+0522", "U+0524",
             "U+0526", "U+0528", "U+052A", "U+052C", "U+052E", "U+0531",
             "U+0532", "U+0533", "U+0534", "U+0535", "U+0536", "U+0537",
             "U+0538", "U+0539", "U+053A", "U+053B", "U+053C", "U+053D",
             "U+053E", "U+053F", "U+0540", "U+0541", "U+0542", "U+0543",
             "U+0544", "U+0545", "U+0546", "U+0547", "U+0548", "U+0549",
             "U+054A", "U+054B", "U+054C", "U+054D", "U+054E", "U+054F",
             "U+0550", "U+0551", "U+0552", "U+0553", "U+0554", "U+0555",
             "U+0556", "Ა", "Ბ", "Გ", "Დ", "Ე", "Ვ", "Ზ", "Თ", "Ი", "Კ", "Ლ",
             "Მ", "Ნ", "Ო", "Პ", "Ჟ", "Რ", "Ს", "Ტ", "Უ", "Ფ", "Ქ", "Ღ", "Ყ",
             "Შ", "Ჩ", "Ც", "Ძ", "Წ", "Ჭ", "Ხ", "Ჯ", "Ჰ", "Ჱ", "Ჲ", "Ჳ", "Ჴ",
             "Ჵ", "Ჶ", "Ჷ", "Ჸ", "Ჹ", "Ჺ", "Ჽ", "Ჾ", "Ჿ", "Ᏸ", "Ᏹ", "Ᏺ", "Ᏻ",
             "Ᏼ", "Ᏽ", "U+0412", "U+0414", "U+041E", "U+0421", "U+0422",
             "U+0422", "U+042A", "U+0462", "U+A64A", "U+A77D", "U+2C63", "Ᶎ",
             "U+1E00", "U+1E02", "U+1E04", "U+1E06", "U+1E08", "U+1E0A",
             "U+1E0C", "U+1E0E", "U+1E10", "U+1E12", "U+1E14", "U+1E16",
             "U+1E18", "U+1E1A", "U+1E1C", "U+1E1E", "U+1E20", "U+1E22",
             "U+1E24", "U+1E26", "U+1E28", "U+1E2A", "U+1E2C", "U+1E2E",
             "U+1E30", "U+1E32", "U+1E34", "U+1E36", "U+1E38", "U+1E3A",
             "U+1E3C", "U+1E3E", "U+1E40", "U+1E42", "U+1E44", "U+1E46",
             "U+1E48", "U+1E4A", "U+1E4C", "U+1E4E", "U+1E50", "U+1E52",
             "U+1E54", "U+1E56", "U+1E58", "U+1E5A", "U+1E5C", "U+1E5E",
             "U+1E60", "U+1E62", "U+1E64", "U+1E66", "U+1E68", "U+1E6A",
             "U+1E6C", "U+1E6E", "U+1E70", "U+1E72", "U+1E74", "U+1E76",
             "U+1E78", "U+1E7A", "U+1E7C", "U+1E7E", "Ẁ", "Ẃ", "Ẅ", "Ẇ", "Ẉ",
             "Ẋ", "Ẍ", "Ẏ", "Ẑ", "Ẓ", "Ẕ", "U+1E60", "Ạ", "Ả", "Ấ", "Ầ", "Ẩ",
             "Ẫ", "Ậ", "Ắ", "Ằ", "Ẳ", "Ẵ", "Ặ", "Ẹ", "Ẻ", "Ẽ", "Ế", "Ề", "Ể",
             "Ễ", "Ệ", "Ỉ", "Ị", "Ọ", "Ỏ", "Ố", "Ồ", "Ổ", "Ỗ", "Ộ", "Ớ", "Ờ",
             "Ở", "Ỡ", "Ợ", "Ụ", "Ủ", "Ứ", "Ừ", "Ử", "Ữ", "Ự", "Ỳ", "Ỵ", "Ỷ",
             "Ỹ", "Ỻ", "Ỽ", "Ỿ", "U+1F08", "U+1F09", "U+1F0A", "U+1F0B",
             "U+1F0C", "U+1F0D", "U+1F0E", "U+1F0F", "U+1F18", "U+1F19",
             "U+1F1A", "U+1F1B", "U+1F1C", "U+1F1D", "U+1F28", "U+1F29",
             "U+1F2A", "U+1F2B", "U+1F2C", "U+1F2D", "U+1F2E", "U+1F2F",
             "U+1F38", "U+1F39", "U+1F3A", "U+1F3B", "U+1F3C", "U+1F3D",
             "U+1F3E", "U+1F3F", "U+1F48", "U+1F49", "U+1F4A", "U+1F4B",
             "U+1F4C", "U+1F4D", "U+1F59", "U+1F5B", "U+1F5D", "U+1F5F",
             "U+1F68", "U+1F69", "U+1F6A", "U+1F6B", "U+1F6C", "U+1F6D",
             "U+1F6E", "U+1F6F", "Ὰ", "Ά", "Ὲ", "Έ", "Ὴ", "Ή", "Ὶ", "Ί", "Ὸ",
             "Ό", "Ὺ", "Ύ", "Ὼ", "Ώ", "Ᾰ", "Ᾱ", "Ι", "Ῐ", "Ῑ", "Ῠ", "Ῡ", "Ῥ",
             "U+2132", "U+2160", "U+2161", "U+2162", "U+2163", "U+2164",
             "U+2165", "U+2166", "U+2167", "U+2168", "U+2169", "U+216A",
             "U+216B", "U+216C", "U+216D", "U+216E", "U+216F", "Ↄ", "Ⓐ", "Ⓑ",
             "Ⓒ", "Ⓓ", "Ⓔ", "Ⓕ", "Ⓖ", "Ⓗ", "Ⓘ", "Ⓙ", "Ⓚ", "Ⓛ", "Ⓜ", "Ⓝ", "Ⓞ",
             "Ⓟ", "Ⓠ", "Ⓡ", "Ⓢ", "Ⓣ", "Ⓤ", "Ⓥ", "Ⓦ", "Ⓧ", "Ⓨ", "Ⓩ", "U+2C00",
             "U+2C01", "U+2C02", "U+2C03", "U+2C04", "U+2C05", "U+2C06",
             "U+2C07", "U+2C08", "U+2C09", "U+2C0A", "U+2C0B", "U+2C0C",
             "U+2C0D", "U+2C0E", "U+2C0F", "U+2C10", "U+2C11", "U+2C12",
             "U+2C13", "U+2C14", "U+2C15", "U+2C16", "U+2C17", "U+2C18",
             "U+2C19", "U+2C1A", "U+2C1B", "U+2C1C", "U+2C1D", "U+2C1E",
             "U+2C1F", "U+2C20", "U+2C21", "U+2C22", "U+2C23", "U+2C24",
             "U+2C25", "U+2C26", "U+2C27", "U+2C28", "U+2C29", "U+2C2A",
             "U+2C2B", "U+2C2C", "U+2C2D", "U+2C2E", "U+2C2F", "U+2C60",
             "U+023A", "U+023E", "U+2C67", "U+2C69", "U+2C6B", "U+2C72",
             "U+2C75", "Ⲁ", "Ⲃ", "Ⲅ", "Ⲇ", "Ⲉ", "Ⲋ", "Ⲍ", "Ⲏ", "Ⲑ", "Ⲓ", "Ⲕ",
             "Ⲗ", "Ⲙ", "Ⲛ", "Ⲝ", "Ⲟ", "Ⲡ", "Ⲣ", "Ⲥ", "Ⲧ", "Ⲩ", "Ⲫ", "Ⲭ", "Ⲯ",
             "Ⲱ", "Ⲳ", "Ⲵ", "Ⲷ", "Ⲹ", "Ⲻ", "Ⲽ", "Ⲿ", "Ⳁ", "Ⳃ", "Ⳅ", "Ⳇ", "Ⳉ",
             "Ⳋ", "Ⳍ", "Ⳏ", "Ⳑ", "Ⳓ", "Ⳕ", "Ⳗ", "Ⳙ", "Ⳛ", "Ⳝ", "Ⳟ", "Ⳡ", "Ⳣ",
             "Ⳬ", "Ⳮ", "Ⳳ", "Ⴀ", "Ⴁ", "Ⴂ", "Ⴃ", "Ⴄ", "Ⴅ", "Ⴆ", "Ⴇ", "Ⴈ", "Ⴉ",
             "Ⴊ", "Ⴋ", "Ⴌ", "Ⴍ", "Ⴎ", "Ⴏ", "Ⴐ", "Ⴑ", "Ⴒ", "Ⴓ", "Ⴔ", "Ⴕ", "Ⴖ",
             "Ⴗ", "Ⴘ", "Ⴙ", "Ⴚ", "Ⴛ", "Ⴜ", "Ⴝ", "Ⴞ", "Ⴟ", "Ⴠ", "Ⴡ", "Ⴢ", "Ⴣ",
             "Ⴤ", "Ⴥ", "Ⴧ", "Ⴭ", "U+A640", "U+A642", "U+A644", "U+A646",
             "U+A648", "U+A64A", "U+A64C", "U+A64E", "U+A650", "U+A652",
             "U+A654", "U+A656", "U+A658", "U+A65A", "U+A65C", "U+A65E",
             "U+A660", "U+A662", "U+A664", "U+A666", "U+A668", "U+A66A",
             "U+A66C", "Ꚁ", "Ꚃ", "Ꚅ", "Ꚇ", "Ꚉ", "Ꚋ", "Ꚍ", "Ꚏ", "Ꚑ", "Ꚓ", "Ꚕ",
             "Ꚗ", "Ꚙ", "Ꚛ", "U+A722", "U+A724", "U+A726", "U+A728", "U+A72A",
             "U+A72C", "U+A72E", "U+A732", "U+A734", "U+A736", "U+A738",
             "U+A73A", "U+A73C", "U+A73E", "U+A740", "U+A742", "U+A744",
             "U+A746", "U+A748", "U+A74A", "U+A74C", "U+A74E", "U+A750",
             "U+A752", "U+A754", "U+A756", "U+A758", "U+A75A", "U+A75C",
             "U+A75E", "U+A760", "U+A762", "U+A764", "U+A766", "U+A768",
             "U+A76A", "U+A76C", "U+A76E", "U+A779", "U+A77B", "U+A77E", "Ꞁ",
             "Ꞃ", "Ꞅ", "Ꞇ", "Ꞌ", "Ꞑ", "Ꞓ", "Ꞔ", "Ꞗ", "Ꞙ", "Ꞛ", "Ꞝ", "Ꞟ", "Ꞡ",
             "Ꞣ", "Ꞥ", "Ꞧ", "Ꞩ", "Ꞵ", "Ꞷ", "Ꞹ", "Ꞻ", "Ꞽ", "Ꞿ", "Ꟁ", "Ꟃ", "Ꟈ",
             "Ꟊ", "Ꟑ", "Ꟗ", "Ꟙ", "Ꟶ", "Ꭓ", "Ꭰ", "Ꭱ", "Ꭲ", "Ꭳ", "Ꭴ", "Ꭵ", "Ꭶ",
             "Ꭷ", "Ꭸ", "Ꭹ", "Ꭺ", "Ꭻ", "Ꭼ", "Ꭽ", "Ꭾ", "Ꭿ", "Ꮀ", "Ꮁ", "Ꮂ", "Ꮃ",
             "Ꮄ", "Ꮅ", "Ꮆ", "Ꮇ", "Ꮈ", "Ꮉ", "Ꮊ", "Ꮋ", "Ꮌ", "Ꮍ", "Ꮎ", "Ꮏ", "Ꮐ",
             "Ꮑ", "Ꮒ", "Ꮓ", "Ꮔ", "Ꮕ", "Ꮖ", "Ꮗ", "Ꮘ", "Ꮙ", "Ꮚ", "Ꮛ", "Ꮜ", "Ꮝ",
             "Ꮞ", "Ꮟ", "Ꮠ", "Ꮡ", "Ꮢ", "Ꮣ", "Ꮤ", "Ꮥ", "Ꮦ", "Ꮧ", "Ꮨ", "Ꮩ", "Ꮪ",
             "Ꮫ", "Ꮬ", "Ꮭ", "Ꮮ", "Ꮯ", "Ꮰ", "Ꮱ", "Ꮲ", "Ꮳ", "Ꮴ", "Ꮵ", "Ꮶ", "Ꮷ",
             "Ꮸ", "Ꮹ", "Ꮺ", "Ꮻ", "Ꮼ", "Ꮽ", "Ꮾ", "Ꮿ", "U+FF21", "U+FF22",
             "U+FF23", "U+FF24", "U+FF25", "U+FF26", "U+FF27", "U+FF28",
             "U+FF29", "U+FF2A", "U+FF2B", "U+FF2C", "U+FF2D", "U+FF2E",
             "U+FF2F", "U+FF30", "U+FF31", "U+FF32", "U+FF33", "U+FF34",
             "U+FF35", "U+FF36", "U+FF37", "U+FF38", "U+FF39", "U+FF3A",
             "U+10400", "U+10401", "U+10402", "U+10403", "U+10404", "U+10405",
             "U+10406", "U+10407", "U+10408", "U+10409", "U+1040A", "U+1040B",
             "U+1040C", "U+1040D", "U+1040E", "U+1040F", "U+10410", "U+10411",
             "U+10412", "U+10413", "U+10414", "U+10415", "U+10416", "U+10417",
             "U+10418", "U+10419", "U+1041A", "U+1041B", "U+1041C", "U+1041D",
             "U+1041E", "U+1041F", "U+10420", "U+10421", "U+10422", "U+10423",
             "U+10424", "U+10425", "U+10426", "U+10427", "U+104B0", "U+104B1",
             "U+104B2", "U+104B3", "U+104B4", "U+104B5", "U+104B6", "U+104B7",
             "U+104B8", "U+104B9", "U+104BA", "U+104BB", "U+104BC", "U+104BD",
             "U+104BE", "U+104BF", "U+104C0", "U+104C1", "U+104C2", "U+104C3",
             "U+104C4", "U+104C5", "U+104C6", "U+104C7", "U+104C8", "U+104C9",
             "U+104CA", "U+104CB", "U+104CC", "U+104CD", "U+104CE", "U+104CF",
             "U+104D0", "U+104D1", "U+104D2", "U+104D3", "U+10570", "U+10571",
             "U+10572", "U+10573", "U+10574", "U+10575", "U+10576", "U+10577",
             "U+10578", "U+10579", "U+1057A", "U+1057C", "U+1057D", "U+1057E",
             "U+1057F", "U+10580", "U+10581", "U+10582", "U+10583", "U+10584",
             "U+10585", "U+10586", "U+10587", "U+10588", "U+10589", "U+1058A",
             "U+1058C", "U+1058D", "U+1058E", "U+1058F", "U+10590", "U+10591",
             "U+10592", "U+10594", "U+10595", "U+10C80", "U+10C81", "U+10C82",
             "U+10C83", "U+10C84", "U+10C85", "U+10C86", "U+10C87", "U+10C88",
             "U+10C89", "U+10C8A", "U+10C8B", "U+10C8C", "U+10C8D", "U+10C8E",
             "U+10C8F", "U+10C90", "U+10C91", "U+10C92", "U+10C93", "U+10C94",
             "U+10C95", "U+10C96", "U+10C97", "U+10C98", "U+10C99", "U+10C9A",
             "U+10C9B", "U+10C9C", "U+10C9D", "U+10C9E", "U+10C9F", "U+10CA0",
             "U+10CA1", "U+10CA2", "U+10CA3", "U+10CA4", "U+10CA5", "U+10CA6",
             "U+10CA7", "U+10CA8", "U+10CA9", "U+10CAA", "U+10CAB", "U+10CAC",
             "U+10CAD", "U+10CAE", "U+10CAF", "U+10CB0", "U+10CB1", "U+10CB2",
             "U+118A0", "U+118A1", "U+118A2", "U+118A3", "U+118A4", "U+118A5",
             "U+118A6", "U+118A7", "U+118A8", "U+118A9", "U+118AA", "U+118AB",
             "U+118AC", "U+118AD", "U+118AE", "U+118AF", "U+118B0", "U+118B1",
             "U+118B2", "U+118B3", "U+118B4", "U+118B5", "U+118B6", "U+118B7",
             "U+118B8", "U+118B9", "U+118BA", "U+118BB", "U+118BC", "U+118BD",
             "U+118BE", "U+118BF", "U+16E40", "U+16E41", "U+16E42", "U+16E43",
             "U+16E44", "U+16E45", "U+16E46", "U+16E47", "U+16E48", "U+16E49",
             "U+16E4A", "U+16E4B", "U+16E4C", "U+16E4D", "U+16E4E", "U+16E4F",
             "U+16E50", "U+16E51", "U+16E52", "U+16E53", "U+16E54", "U+16E55",
             "U+16E56", "U+16E57", "U+16E58", "U+16E59", "U+16E5A", "U+16E5B",
             "U+16E5C", "U+16E5D", "U+16E5E", "U+16E5F", "U+1E900", "U+1E901",
             "U+1E902", "U+1E903", "U+1E904", "U+1E905", "U+1E906", "U+1E907",
             "U+1E908", "U+1E909", "U+1E90A", "U+1E90B", "U+1E90C", "U+1E90D",
             "U+1E90E", "U+1E90F", "U+1E910", "U+1E911", "U+1E912", "U+1E913",
             "U+1E914", "U+1E915", "U+1E916", "U+1E917", "U+1E918", "U+1E919",
             "U+1E91A", "U+1E91B", "U+1E91C", "U+1E91D", "U+1E91E", "U+1E91F",
             "U+1E920", "U+1E921" >>,
    xfrom |-> << "ß", "U+0149", "ǰ", "ΐ", "ΰ", "և", "ẖ", "ẗ", "ẘ", "ẙ", "ẚ",
             "U+1F50", "U+1F52", "U+1F54", "U+1F56", "ᾀ", "ᾁ", "ᾂ", "ᾃ", "ᾄ",
             "ᾅ", "ᾆ", "ᾇ", "ᾈ", "ᾉ", "ᾊ", "ᾋ", "ᾌ", "ᾍ", "ᾎ", "ᾏ", "ᾐ", "ᾑ",
             "ᾒ", "ᾓ", "ᾔ", "ᾕ", "ᾖ", "ᾗ", "ᾘ", "ᾙ", "ᾚ", "ᾛ", "ᾜ", "ᾝ", "ᾞ",
             "ᾟ", "ᾠ", "ᾡ", "ᾢ", "ᾣ", "ᾤ", "ᾥ", "ᾦ", "ᾧ", "ᾨ", "ᾩ", "ᾪ", "ᾫ",
             "ᾬ", "ᾭ", "ᾮ", "ᾯ", "ᾲ", "ᾳ", "ᾴ", "ᾶ", "ᾷ", "ᾼ", "ῂ", "ῃ", "ῄ",
             "ῆ", "ῇ", "ῌ", "ῒ", "ΐ", "ῖ", "ῗ", "ῢ", "ΰ", "ῤ", "ῦ", "ῧ", "ῲ",
             "ῳ", "ῴ", "ῶ", "ῷ", "ῼ", "U+FB00", "U+FB01", "U+FB02", "U+FB03",
             "U+FB04", "U+FB05", "U+FB06", "U+FB13", "U+FB14", "U+FB15",
             "U+FB16", "U+FB17" >>,
    x1 |->   << "S", "ʼ", "J", "Ι", "Υ", "U+0535", "H", "T", "W", "Y", "A", "Υ",
             "Υ", "Υ", "Υ", "U+1F08", "U+1F09", "U+1F0A", "U+1F0B", "U+1F0C",
             "U+1F0D", "U+1F0E", "U+1F0F", "U+1F08", "U+1F09", "U+1F0A",
             "U+1F0B", "U+1F0C", "U+1F0D", "U+1F0E", "U+1F0F", "U+1F28",
             "U+1F29", "U+1F2A", "U+1F2B", "U+1F2C", "U+1F2D", "U+1F2E",
             "U+1F2F", "U+1F28", "U+1F29", "U+1F2A", "U+1F2B", "U+1F2C",
             "U+1F2D", "U+1F2E", "U+1F2F", "U+1F68", "U+1F69", "U+1F6A",
             "U+1F6B", "U+1F6C", "U+1F6D", "U+1F6E", "U+1F6F", "U+1F68",
             "U+1F69", "U+1F6A", "U+1F6B", "U+1F6C", "U+1F6D", "U+1F6E",
             "U+1F6F", "Ὰ", "Α", "Ά", "Α", "Α", "Α", "Ὴ", "Η", "Ή", "Η", "Η",
             "Η", "Ι", "Ι", "Ι", "Ι", "Υ", "Υ", "Ρ", "Υ", "Υ", "Ὼ", "Ω", "Ώ",
             "Ω", "Ω", "Ω", "F", "F", "F", "F", "F", "S", "S", "U+0544",
             "U+0544", "U+0544", "U+054E", "U+0544" >>,
    x2 |->   << "S", "N", "U+030C", "U+0308", "U+0308", "U+0552", "U+0331",
             "U+0308", "U+030A", "U+030A", "ʾ", "U+0313", "U+0313", "U+0313",
             "U+0313", "Ι", "Ι", "Ι", "Ι", "Ι", "Ι", "Ι", "Ι", "Ι", "Ι", "Ι",
             "Ι", "Ι", "Ι", "Ι", "Ι", "Ι", "Ι", "Ι", "Ι", "Ι", "Ι", "Ι", "Ι",
             "Ι", "Ι", "Ι", "Ι", "Ι", "Ι", "Ι", "Ι", "Ι", "Ι", "Ι", "Ι", "Ι",
             "Ι", "Ι", "Ι", "Ι", "Ι", "Ι", "Ι", "Ι", "Ι", "Ι", "Ι", "Ι", "Ι",
             "Ι", "U+0342", "U+0342", "Ι", "Ι", "Ι", "Ι", "U+0342", "U+0342",
             "Ι", "U+0308", "U+0308", "U+0342", "U+0308", "U+0308", "U+0308",
             "U+0313", "U+0342", "U+0308", "Ι", "Ι", "Ι", "U+0342", "U+0342",
             "Ι", "F", "I", "L", "F", "F", "T", "T", "U+0546", "U+0535",
             "U+053B", "U+0546", "U+053D" >>,
    x3 |->   << "", "", "", "U+0301", "U+0301", "", "", "", "", "", "", "",
             "U+0300", "U+0301", "U+0342", "", "", "", "", "", "", "", "", "",
             "", "", "", "", "", "", "", "", "", "", "", "", "", "", "", "",
             "", "", "", "", "", "", "", "", "", "", "", "", "", "", "", "",
             "", "", "", "", "", "", "", "", "", "", "", "Ι", "", "", "", "",
             "", "Ι", "", "U+0300", "U+0301", "", "U+0342", "U+0300",
             "U+0301", "", "", "U+0342", "", "", "", "", "Ι", "", "", "", "",
             "I", "L", "", "", "", "", "", "", "" >> ]

\* the characters str.lower() changes wherever they stand, in the layout of
\* UPPER_CASE; the capital sigma depends on its place and is handled apart
LOWER_CASE ==
  [ from |-> << "A", "B", "C", "D", "E", "F", "G", "H", "I", "J", "K", "L", "M",
             "N", "O", "P", "Q", "R", "S", "T", "U", "V", "W", "X", "Y", "Z",
             "À", "Á", "Â", "Ã", "Ä", "Å", "Æ", "Ç", "È", "É", "Ê", "Ë", "Ì",
             "Í", "Î", "Ï", "Ð", "Ñ", "Ò", "Ó", "Ô", "Õ", "Ö", "Ø", "Ù", "Ú",
             "Û", "Ü", "Ý", "Þ", "U+0100", "U+0102", "U+0104", "U+0106",
             "U+0108", "U+010A", "U+010C", "U+010E", "U+0110", "U+0112",
             "U+0114", "U+0116", "U+0118", "U+011A", "U+011C", "U+011E",
             "U+0120", "U+0122", "U+0124", "U+0126", "U+0128", "U+012A",
             "U+012C", "U+012E", "U+0132", "U+0134", "U+0136", "U+0139",
             "U+013B", "U+013D", "U+013F", "U+0141", "U+0143", "U+0145",
             "U+0147", "U+014A", "U+014C", "U+014E", "U+0150", "U+0152",
             "U+0154", "U+0156", "U+0158", "U+015A", "U+015C", "U+015E",
             "U+0160", "U+0162", "U+0164", "U+0166", "U+0168", "U+016A",
             "U+016C", "U+016E", "U+0170", "U+0172", "U+0174", "U+0176",
             "U+0178", "U+0179", "U+017B", "U+017D", "Ɓ", "Ƃ", "Ƅ", "Ɔ", "Ƈ",
             "Ɖ", "Ɗ", "Ƌ", "Ǝ", "Ə", "Ɛ", "Ƒ", "Ɠ", "Ɣ", "Ɩ", "Ɨ", "Ƙ", "Ɯ",
             "Ɲ", "Ɵ", "Ơ", "Ƣ", "Ƥ", "Ʀ", "Ƨ", "Ʃ", "Ƭ", "Ʈ", "Ư", "Ʊ", "Ʋ",
             "Ƴ", "Ƶ", "Ʒ", "Ƹ", "Ƽ", "Ǆ", "ǅ", "Ǉ", "ǈ", "Ǌ", "ǋ", "Ǎ", "Ǐ",
             "Ǒ", "Ǔ", "Ǖ", "Ǘ", "Ǚ", "Ǜ", "Ǟ", "Ǡ", "Ǣ", "Ǥ", "Ǧ", "Ǩ", "Ǫ",
             "Ǭ", "Ǯ", "Ǳ", "ǲ", "Ǵ", "Ƕ", "Ƿ", "Ǹ", "Ǻ", "Ǽ", "Ǿ", "U+0200",
             "U+0202", "U+0204", "U+0206", "U+0208", "U+020A", "U+020C",
             "U+020E", "U+0210", "U+0212", "U+0214", "U+0216", "U+0218",
             "U+021A", "U+021C", "U+021E", "U+0220", "U+0222", "U+0224",
             "U+0226", "U+0228", "U+022A", "U+022C", "U+022E", "U+0230",
             "U+0232", "U+023A", "U+023B", "U+023D", "U+023E", "U+0241",
             "U+0243", "U+0244", "U+0245", "U+0246", "U+0248", "U+024A",
             "U+024C", "U+024E", "U+0370", "U+0372", "U+0376", "U+037F", "Ά",
             "Έ", "Ή", "Ί", "Ό", "Ύ", "Ώ", "Α", "Β", "Γ", "Δ", "Ε", "Ζ", "Η",
             "Θ", "Ι", "Κ", "Λ", "Μ", "Ν", "Ξ", "Ο", "Π", "Ρ", "Τ", "Υ", "Φ",
             "Χ", "Ψ", "Ω", "Ϊ", "Ϋ", "Ϗ", "Ϙ", "Ϛ", "Ϝ", "Ϟ", "Ϡ", "Ϣ", "Ϥ",
             "Ϧ", "Ϩ", "Ϫ", "Ϭ", "Ϯ", "ϴ", "Ϸ", "Ϲ", "Ϻ", "Ͻ", "Ͼ", "Ͽ",
             "U+0400", "U+0401", "U+0402", "U+0403", "U+0404", "U+0405",
             "U+0406", "U+0407", "U+0408", "U+0409", "U+040A", "U+040B",
             "U+040C", "U+040D", "U+040E", "U+040F", "U+0410", "U+0411",
             "U+0412", "U+0413", "U+0414", "U+0415", "U+0416", "U+0417",
             "U+0418", "U+0419", "U+041A", "U+041B", "U+041C", "U+041D",
             "U+041E", "U+041F", "U+0420", "U+0421", "U+0422", "U+0423",
             "U+0424", "U+0425", "U+0426", "U+0427", "U+0428", "U+0429",
             "U+042A", "U+042B", "U+042C", "U+042D", "U+042E", "U+042F",
             "U+0460", "U+0462", "U+0464", "U+0466", "U+0468", "U+046A",
             "U+046C", "U+046E", "U+0470", "U+0472", "U+0474", "U+0476",
             "U+0478", "U+047A", "U+047C", "U+047E", "Ҁ", "Ҋ", "Ҍ", "Ҏ", "Ґ",
             "Ғ", "Ҕ", "Җ", "Ҙ", "Қ", "Ҝ", "Ҟ", "Ҡ", "Ң", "Ҥ", "Ҧ", "Ҩ", "Ҫ",
             "Ҭ", "Ү", "Ұ", "Ҳ", "Ҵ", "Ҷ", "Ҹ", "Һ", "Ҽ", "Ҿ", "Ӏ", "Ӂ", "Ӄ",
             "Ӆ", "Ӈ", "Ӊ", "Ӌ", "Ӎ", "Ӑ", "Ӓ", "Ӕ", "Ӗ", "Ә", "Ӛ", "Ӝ", "Ӟ",
             "Ӡ", "Ӣ", "Ӥ", "Ӧ", "Ө", "Ӫ", "Ӭ", "Ӯ", "Ӱ", "Ӳ", "Ӵ", "Ӷ", "Ӹ",
             "Ӻ", "Ӽ", "Ӿ", "U+0500", "U+0502", "U+0504", "U+0506", "U+0508",
             "U+050A", "U+050C", "U+050E", "U+0510", "U+0512", "U+0514",
             "U+0516", "U+0518", "U+051A", "U+051C", "U+051E", "U+0520",
             "U+0522", "U+0524", "U+0526", "U+0528", "U+052A", "U+052C",
             "U+052E", "U+0531", "U+0532", "U+0533", "U+0534", "U+0535",
             "U+0536", "U+0537", "U+0538", "U+0539", "U+053A", "U+053B",
             "U+053C", "U+053D", "U+053E", "U+053F", "U+0540", "U+0541",
             "U+0542", "U+0543", "U+0544", "U+0545", "U+0546", "U+0547",
             "U+0548", "U+0549", "U+054A", "U+054B", "U+054C", "U+054D",
             "U+054E", "U+054F", "U+0550", "U+0551", "U+0552", "U+0553",
             "U+0554", "U+0555", "U+0556", "Ⴀ", "Ⴁ", "Ⴂ", "Ⴃ", "Ⴄ", "Ⴅ", "Ⴆ",
             "Ⴇ", "Ⴈ", "Ⴉ", "Ⴊ", "Ⴋ", "Ⴌ", "Ⴍ", "Ⴎ", "Ⴏ", "Ⴐ", "Ⴑ", "Ⴒ", "Ⴓ",
             "Ⴔ", "Ⴕ", "Ⴖ", "Ⴗ", "Ⴘ", "Ⴙ", "Ⴚ", "Ⴛ", "Ⴜ", "Ⴝ", "Ⴞ", "Ⴟ", "Ⴠ",
             "Ⴡ", "Ⴢ", "Ⴣ", "Ⴤ", "Ⴥ", "Ⴧ", "Ⴭ", "Ꭰ", "Ꭱ", "Ꭲ", "Ꭳ", "Ꭴ", "Ꭵ",
             "Ꭶ", "Ꭷ", "Ꭸ", "Ꭹ", "Ꭺ", "Ꭻ", "Ꭼ", "Ꭽ", "Ꭾ", "Ꭿ", "Ꮀ", "Ꮁ", "Ꮂ",
             "Ꮃ", "Ꮄ", "Ꮅ", "Ꮆ", "Ꮇ", "Ꮈ", "Ꮉ", "Ꮊ", "Ꮋ", "Ꮌ", "Ꮍ", "Ꮎ", "Ꮏ",
             "Ꮐ", "Ꮑ", "Ꮒ", "Ꮓ", "Ꮔ", "Ꮕ", "Ꮖ", "Ꮗ", "Ꮘ", "Ꮙ", "Ꮚ", "Ꮛ", "Ꮜ",
             "Ꮝ", "Ꮞ", "Ꮟ", "Ꮠ", "Ꮡ", "Ꮢ", "Ꮣ", "Ꮤ", "Ꮥ", "Ꮦ", "Ꮧ", "Ꮨ", "Ꮩ",
             "Ꮪ", "Ꮫ", "Ꮬ", "Ꮭ", "Ꮮ", "Ꮯ", "Ꮰ", "Ꮱ", "Ꮲ", "Ꮳ", "Ꮴ", "Ꮵ", "Ꮶ",
             "Ꮷ", "Ꮸ", "Ꮹ", "Ꮺ", "Ꮻ", "Ꮼ", "Ꮽ", "Ꮾ", "Ꮿ", "Ᏸ", "Ᏹ", "Ᏺ", "Ᏻ",
             "Ᏼ", "Ᏽ", "Ა", "Ბ", "Გ", "Დ", "Ე", "Ვ", "Ზ", "Თ", "Ი", "Კ", "Ლ",
             "Მ", "Ნ", "Ო", "Პ", "Ჟ", "Რ", "Ს", "Ტ", "Უ", "Ფ", "Ქ", "Ღ", "Ყ",
             "Შ", "Ჩ", "Ც", "Ძ", "Წ", "Ჭ", "Ხ", "Ჯ", "Ჰ", "Ჱ", "Ჲ", "Ჳ", "Ჴ",
             "Ჵ", "Ჶ", "Ჷ", "Ჸ", "Ჹ", "Ჺ", "Ჽ", "Ჾ", "Ჿ", "U+1E00", "U+1E02",
             "U+1E04", "U+1E06", "U+1E08", "U+1E0A", "U+1E0C", "U+1E0E",
             "U+1E10", "U+1E12", "U+1E14", "U+1E16", "U+1E18", "U+1E1A",
             "U+1E1C", "U+1E1E", "U+1E20", "U+1E22", "U+1E24", "U+1E26",
             "U+1E28", "U+1E2A", "U+1E2C", "U+1E2E", "U+1E30", "U+1E32",
             "U+1E34", "U+1E36", "U+1E38", "U+1E3A", "U+1E3C", "U+1E3E",
             "U+1E40", "U+1E42", "U+1E44", "U+1E46", "U+1E48", "U+1E4A",
             "U+1E4C", "U+1E4E", "U+1E50", "U+1E52", "U+1E54", "U+1E56",
             "U+1E58", "U+1E5A", "U+1E5C", "U+1E5E", "U+1E60", "U+1E62",
             "U+1E64", "U+1E66", "U+1E68", "U+1E6A", "U+1E6C", "U+1E6E",
             "U+1E70", "U+1E72", "U+1E74", "U+1E76", "U+1E78", "U+1E7A",
             "U+1E7C", "U+1E7E", "Ẁ", "Ẃ", "Ẅ", "Ẇ", "Ẉ", "Ẋ", "Ẍ", "Ẏ", "Ẑ",
             "Ẓ", "Ẕ", "ẞ", "Ạ", "Ả", "Ấ", "Ầ", "Ẩ", "Ẫ", "Ậ", "Ắ", "Ằ", "Ẳ",
             "Ẵ", "Ặ", "Ẹ", "Ẻ", "Ẽ", "Ế", "Ề", "Ể", "Ễ", "Ệ", "Ỉ", "Ị", "Ọ",
             "Ỏ", "Ố", "Ồ", "Ổ", "Ỗ", "Ộ", "Ớ", "Ờ", "Ở", "Ỡ", "Ợ", "Ụ", "Ủ",
             "Ứ", "Ừ", "Ử", "Ữ", "Ự", "Ỳ", "Ỵ", "Ỷ", "Ỹ", "Ỻ", "Ỽ", "Ỿ",
             "U+1F08", "U+1F09", "U+1F0A", "U+1F0B", "U+1F0C", "U+1F0D",
             "U+1F0E", "U+1F0F", "U+1F18", "U+1F19", "U+1F1A", "U+1F1B",
             "U+1F1C", "U+1F1D", "U+1F28", "U+1F29", "U+1F2A", "U+1F2B",
             "U+1F2C", "U+1F2D", "U+1F2E", "U+1F2F", "U+1F38", "U+1F39",
             "U+1F3A", "U+1F3B", "U+1F3C", "U+1F3D", "U+1F3E", "U+1F3F",
             "U+1F48", "U+1F49", "U+1F4A", "U+1F4B", "U+1F4C", "U+1F4D",
             "U+1F59", "U+1F5B", "U+1F5D", "U+1F5F", "U+1F68", "U+1F69",
             "U+1F6A", "U+1F6B", "U+1F6C", "U+1F6D", "U+1F6E", "U+1F6F", "ᾈ",
             "ᾉ", "ᾊ", "ᾋ", "ᾌ", "ᾍ", "ᾎ", "ᾏ", "ᾘ", "ᾙ", "ᾚ", "ᾛ", "ᾜ", "ᾝ",
             "ᾞ", "ᾟ", "ᾨ", "ᾩ", "ᾪ", "ᾫ", "ᾬ", "ᾭ", "ᾮ", "ᾯ", "Ᾰ", "Ᾱ", "Ὰ",
             "Ά", "ᾼ", "Ὲ", "Έ", "Ὴ", "Ή", "ῌ", "Ῐ", "Ῑ", "Ὶ", "Ί", "Ῠ", "Ῡ",
             "Ὺ", "Ύ", "Ῥ", "Ὸ", "Ό", "Ὼ", "Ώ", "ῼ", "U+2126", "U+212A",
             "U+212B", "U+2132", "U+2160", "U+2161", "U+2162", "U+2163",
             "U+2164", "U+2165", "U+2166", "U+2167", "U+2168", "U+2169",
             "U+216A", "U+216B", "U+216C", "U+216D", "U+216E", "U+216F", "Ↄ",
             "Ⓐ", "Ⓑ", "Ⓒ", "Ⓓ", "Ⓔ", "Ⓕ", "Ⓖ", "Ⓗ", "Ⓘ", "Ⓙ", "Ⓚ", "Ⓛ", "Ⓜ",
             "Ⓝ", "Ⓞ", "Ⓟ", "Ⓠ", "Ⓡ", "Ⓢ", "Ⓣ", "Ⓤ", "Ⓥ", "Ⓦ", "Ⓧ", "Ⓨ", "Ⓩ",
             "U+2C00", "U+2C01", "U+2C02", "U+2C03", "U+2C04", "U+2C05",
             "U+2C06", "U+2C07", "U+2C08", "U+2C09", "U+2C0A", "U+2C0B",
             "U+2C0C", "U+2C0D", "U+2C0E", "U+2C0F", "U+2C10", "U+2C11",
             "U+2C12", "U+2C13", "U+2C14", "U+2C15", "U+2C16", "U+2C17",
             "U+2C18", "U+2C19", "U+2C1A", "U+2C1B", "U+2C1C", "U+2C1D",
             "U+2C1E", "U+2C1F", "U+2C20", "U+2C21", "U+2C22", "U+2C23",
             "U+2C24", "U+2C25", "U+2C26", "U+2C27", "U+2C28", "U+2C29",
             "U+2C2A", "U+2C2B", "U+2C2C", "U+2C2D", "U+2C2E", "U+2C2F",
             "U+2C60", "U+2C62", "U+2C63", "U+2C64", "U+2C67", "U+2C69",
             "U+2C6B", "U+2C6D", "U+2C6E", "U+2C6F", "U+2C70", "U+2C72",
             "U+2C75", "U+2C7E", "U+2C7F", "Ⲁ", "Ⲃ", "Ⲅ", "Ⲇ", "Ⲉ", "Ⲋ", "Ⲍ",
             "Ⲏ", "Ⲑ", "Ⲓ", "Ⲕ", "Ⲗ", "Ⲙ", "Ⲛ", "Ⲝ", "Ⲟ", "Ⲡ", "Ⲣ", "Ⲥ", "Ⲧ",
             "Ⲩ", "Ⲫ", "Ⲭ", "Ⲯ", "Ⲱ", "Ⲳ", "Ⲵ", "Ⲷ", "Ⲹ", "Ⲻ", "Ⲽ", "Ⲿ", "Ⳁ",
             "Ⳃ", "Ⳅ", "Ⳇ", "Ⳉ", "Ⳋ", "Ⳍ", "Ⳏ", "Ⳑ", "Ⳓ", "Ⳕ", "Ⳗ", "Ⳙ", "Ⳛ",
             "Ⳝ", "Ⳟ", "Ⳡ", "Ⳣ", "Ⳬ", "Ⳮ", "Ⳳ", "U+A640", "U+A642", "U+A644",
             "U+A646", "U+A648", "U+A64A", "U+A64C", "U+A64E", "U+A650",
             "U+A652", "U+A654", "U+A656", "U+A658", "U+A65A", "U+A65C",
             "U+A65E", "U+A660", "U+A662", "U+A664", "U+A666", "U+A668",
             "U+A66A", "U+A66C", "Ꚁ", "Ꚃ", "Ꚅ", "Ꚇ", "Ꚉ", "Ꚋ", "Ꚍ", "Ꚏ", "Ꚑ",
             "Ꚓ", "Ꚕ", "Ꚗ", "Ꚙ", "Ꚛ", "U+A722", "U+A724", "U+A726", "U+A728",
             "U+A72A", "U+A72C", "U+A72E", "U+A732", "U+A734", "U+A736",
             "U+A738", "U+A73A", "U+A73C", "U+A73E", "U+A740", "U+A742",
             "U+A744", "U+A746", "U+A748", "U+A74A", "U+A74C", "U+A74E",
             "U+A750", "U+A752", "U+A754", "U+A756", "U+A758", "U+A75A",
             "U+A75C", "U+A75E", "U+A760", "U+A762", "U+A764", "U+A766",
             "U+A768", "U+A76A", "U+A76C", "U+A76E", "U+A779", "U+A77B",
             "U+A77D", "U+A77E", "Ꞁ", "Ꞃ", "Ꞅ", "Ꞇ", "Ꞌ", "Ɥ", "Ꞑ", "Ꞓ", "Ꞗ",
             "Ꞙ", "Ꞛ", "Ꞝ", "Ꞟ", "Ꞡ", "Ꞣ", "Ꞥ", "Ꞧ", "Ꞩ", "Ɦ", "Ɜ", "Ɡ", "Ɬ",
             "Ɪ", "Ʞ", "Ʇ", "Ʝ", "Ꭓ", "Ꞵ", "Ꞷ", "Ꞹ", "Ꞻ", "Ꞽ", "Ꞿ", "Ꟁ", "Ꟃ",
             "Ꞔ", "Ʂ", "Ᶎ", "Ꟈ", "Ꟊ", "Ꟑ", "Ꟗ", "Ꟙ", "Ꟶ", "U+FF21", "U+FF22",
             "U+FF23", "U+FF24", "U+FF25", "U+FF26", "U+FF27", "U+FF28",
             "U+FF29", "U+FF2A", "U+FF2B", "U+FF2C", "U+FF2D", "U+FF2E",
             "U+FF2F", "U+FF30", "U+FF31", "U+FF32", "U+FF33", "U+FF34",
             "U+FF35", "U+FF36", "U+FF37", "U+FF38", "U+FF39", "U+FF3A",
             "U+10400", "U+10401", "U+10402", "U+10403", "U+10404", "U+10405",
             "U+10406", "U+10407", "U+10408", "U+10409", "U+1040A", "U+1040B",
             "U+1040C", "U+1040D", "U+1040E", "U+1040F", "U+10410", "U+10411",
             "U+10412", "U+10413", "U+10414", "U+10415", "U+10416", "U+10417",
             "U+10418", "U+10419", "U+1041A", "U+1041B", "U+1041C", "U+1041D",
             "U+1041E", "U+1041F", "U+10420", "U+10421", "U+10422", "U+10423",
             "U+10424", "U+10425", "U+10426", "U+10427", "U+104B0", "U+104B1",
             "U+104B2", "U+104B3", "U+104B4", "U+104B5", "U+104B6", "U+104B7",
             "U+104B8", "U+104B9", "U+104BA", "U+104BB", "U+104BC", "U+104BD",
             "U+104BE", "U+104BF", "U+104C0", "U+104C1", "U+104C2", "U+104C3",
             "U+104C4", "U+104C5", "U+104C6", "U+104C7", "U+104C8", "U+104C9",
             "U+104CA", "U+104CB", "U+104CC", "U+104CD", "U+104CE", "U+104CF",
             "U+104D0", "U+104D1", "U+104D2", "U+104D3", "U+10570", "U+10571",
             "U+10572", "U+10573", "U+10574", "U+10575", "U+10576", "U+10577",
             "U+10578", "U+10579", "U+1057A", "U+1057C", "U+1057D", "U+1057E",
             "U+1057F", "U+10580", "U+10581", "U+10582", "U+10583", "U+10584",
             "U+10585", "U+10586", "U+10587", "U+10588", "U+10589", "U+1058A",
             "U+1058C", "U+1058D", "U+1058E", "U+1058F", "U+10590", "U+10591",
             "U+10592", "U+10594", "U+10595", "U+10C80", "U+10C81", "U+10C82",
             "U+10C83", "U+10C84", "U+10C85", "U+10C86", "U+10C87", "U+10C88",
             "U+10C89", "U+10C8A", "U+10C8B", "U+10C8C", "U+10C8D", "U+10C8E",
             "U+10C8F", "U+10C90", "U+10C91", "U+10C92", "U+10C93", "U+10C94",
             "U+10C95", "U+10C96", "U+10C97", "U+10C98", "U+10C99", "U+10C9A",
             "U+10C9B", "U+10C9C", "U+10C9D", "U+10C9E", "U+10C9F", "U+10CA0",
             "U+10CA1", "U+10CA2", "U+10CA3", "U+10CA4", "U+10CA5", "U+10CA6",
             "U+10CA7", "U+10CA8", "U+10CA9", "U+10CAA", "U+10CAB", "U+10CAC",
             "U+10CAD", "U+10CAE", "U+10CAF", "U+10CB0", "U+10CB1", "U+10CB2",
             "U+118A0", "U+118A1", "U+118A2", "U+118A3", "U+118A4", "U+118A5",
             "U+118A6", "U+118A7", "U+118A8", "U+118A9", "U+118AA", "U+118AB",
             "U+118AC", "U+118AD", "U+118AE", "U+118AF", "U+118B0", "U+118B1",
             "U+118B2", "U+118B3", "U+118B4", "U+118B5", "U+118B6", "U+118B7",
             "U+118B8", "U+118B9", "U+118BA", "U+118BB", "U+118BC", "U+118BD",
             "U+118BE", "U+118BF", "U+16E40", "U+16E41", "U+16E42", "U+16E43",
             "U+16E44", "U+16E45", "U+16E46", "U+16E47", "U+16E48", "U+16E49",
             "U+16E4A", "U+16E4B", "U+16E4C", "U+16E4D", "U+16E4E", "U+16E4F",
             "U+16E50", "U+16E51", "U+16E52", "U+16E53", "U+16E54", "U+16E55",
             "U+16E56", "U+16E57", "U+16E58", "U+16E59", "U+16E5A", "U+16E5B",
             "U+16E5C", "U+16E5D", "U+16E5E", "U+16E5F", "U+1E900", "U+1E901",
             "U+1E902", "U+1E903", "U+1E904", "U+1E905", "U+1E906", "U+1E907",
             "U+1E908", "U+1E909", "U+1E90A", "U+1E90B", "U+1E90C", "U+1E90D",
             "U+1E90E", "U+1E90F", "U+1E910", "U+1E911", "U+1E912", "U+1E913",
             "U+1E914", "U+1E915", "U+1E916", "U+1E917", "U+1E918", "U+1E919",
             "U+1E91A", "U+1E91B", "U+1E91C", "U+1E91D", "U+1E91E", "U+1E91F",
             "U+1E920", "U+1E921" >>,
    to |->   << "a", "b", "c", "d", "e", "f", "g", "h", "i", "j", "k", "l", "m",
             "n", "o", "p", "q", "r", "s", "t", "u", "v", "w", "x", "y", "z",
             "à", "á", "â", "ã", "ä", "å", "æ", "ç", "è", "é", "ê", "ë", "ì",
             "í", "î", "ï", "ð", "ñ", "ò", "ó", "ô", "õ", "ö", "ø", "ù", "ú",
             "û", "ü", "ý", "þ", "U+0101", "U+0103", "U+0105", "U+0107",
             "U+0109", "U+010B", "U+010D", "U+010F", "U+0111", "U+0113",
             "U+0115", "U+0117", "U+0119", "U+011B", "U+011D", "U+011F",
             "U+0121", "U+0123", "U+0125", "U+0127", "U+0129", "U+012B",
             "U+012D", "U+012F", "U+0133", "U+0135", "U+0137", "U+013A",
             "U+013C", "U+013E", "U+0140", "U+0142", "U+0144", "U+0146",
             "U+0148", "U+014B", "U+014D", "U+014F", "U+0151", "U+0153",
             "U+0155", "U+0157", "U+0159", "U+015B", "U+015D", "U+015F",
             "U+0161", "U+0163", "U+0165", "U+0167", "U+0169", "U+016B",
             "U+016D", "U+016F", "U+0171", "U+0173", "U+0175", "U+0177", "ÿ",
             "U+017A", "U+017C", "U+017E", "U+0253", "ƃ", "ƅ", "U+0254", "ƈ",
             "U+0256", "U+0257", "ƌ", "ǝ", "U+0259", "U+025B", "ƒ", "U+0260",
             "U+0263", "U+0269", "U+0268", "ƙ", "U+026F", "U+0272", "U+0275",
             "ơ", "ƣ", "ƥ", "ʀ", "ƨ", "ʃ", "ƭ", "ʈ", "ư", "ʊ", "ʋ", "ƴ", "ƶ",
             "ʒ", "ƹ", "ƽ", "ǆ", "ǆ", "ǉ", "ǉ", "ǌ", "ǌ", "ǎ", "ǐ", "ǒ", "ǔ",
             "ǖ", "ǘ", "ǚ", "ǜ", "ǟ", "ǡ", "ǣ", "ǥ", "ǧ", "ǩ", "ǫ", "ǭ", "ǯ",
             "ǳ", "ǳ", "ǵ", "ƕ", "ƿ", "ǹ", "ǻ", "ǽ", "ǿ", "U+0201", "U+0203",
             "U+0205", "U+0207", "U+0209", "U+020B", "U+020D", "U+020F",
             "U+0211", "U+0213", "U+0215", "U+0217", "U+0219", "U+021B",
             "U+021D", "U+021F", "ƞ", "U+0223", "U+0225", "U+0227", "U+0229",
             "U+022B", "U+022D", "U+022F", "U+0231", "U+0233", "U+2C65",
             "U+023C", "ƚ", "U+2C66", "U+0242", "ƀ", "ʉ", "ʌ", "U+0247",
             "U+0249", "U+024B", "U+024D", "U+024F", "U+0371", "U+0373",
             "U+0377", "ϳ", "ά", "έ", "ή", "ί", "ό", "ύ", "ώ", "α", "β", "γ",
             "δ", "ε", "ζ", "η", "θ", "ι", "κ", "λ", "μ", "ν", "ξ", "ο", "π",
             "ρ", "τ", "υ", "φ", "χ", "ψ", "ω", "ϊ", "ϋ", "ϗ", "ϙ", "ϛ", "ϝ",
             "ϟ", "ϡ", "ϣ", "ϥ", "ϧ", "ϩ", "ϫ", "ϭ", "ϯ", "θ", "ϸ", "ϲ", "ϻ",
             "U+037B", "U+037C", "U+037D", "U+0450", "U+0451", "U+0452",
             "U+0453", "U+0454", "U+0455", "U+0456", "U+0457", "U+0458",
             "U+0459", "U+045A", "U+045B", "U+045C", "U+045D", "U+045E",
             "U+045F", "U+0430", "U+0431", "U+0432", "U+0433", "U+0434",
             "U+0435", "U+0436", "U+0437", "U+0438", "U+0439", "U+043A",
             "U+043B", "U+043C", "U+043D", "U+043E", "U+043F", "U+0440",
             "U+0441", "U+0442", "U+0443", "U+0444", "U+0445", "U+0446",
             "U+0447", "U+0448", "U+0449", "U+044A", "U+044B", "U+044C",
             "U+044D", "U+044E", "U+044F", "U+0461", "U+0463", "U+0465",
             "U+0467", "U+0469", "U+046B", "U+046D", "U+046F", "U+0471",
             "U+0473", "U+0475", "U+0477", "U+0479", "U+047B", "U+047D",
             "U+047F", "ҁ", "ҋ", "ҍ", "ҏ", "ґ", "ғ", "ҕ", "җ", "ҙ", "қ", "ҝ",
             "ҟ", "ҡ", "ң", "ҥ", "ҧ", "ҩ", "ҫ", "ҭ", "ү", "ұ", "ҳ", "ҵ", "ҷ",
             "ҹ", "һ", "ҽ", "ҿ", "ӏ", "ӂ", "ӄ", "ӆ", "ӈ", "ӊ", "ӌ", "ӎ", "ӑ",
             "ӓ", "ӕ", "ӗ", "ә", "ӛ", "ӝ", "ӟ", "ӡ", "ӣ", "ӥ", "ӧ", "ө", "ӫ",
             "ӭ", "ӯ", "ӱ", "ӳ", "ӵ", "ӷ", "ӹ", "ӻ", "ӽ", "ӿ", "U+0501",
             "U+0503", "U+0505", "U+0507", "U+0509", "U+050B", "U+050D",
             "U+050F", "U+0511", "U+0513", "U+0515", "U+0517", "U+0519",
             "U+051B", "U+051D", "U+051F", "U+0521", "U+0523", "U+0525",
             "U+0527", "U+0529", "U+052B", "U+052D", "U+052F", "U+0561",
             "U+0562", "U+0563", "U+0564", "U+0565", "U+0566", "U+0567",
             "U+0568", "U+0569", "U+056A", "U+056B", "U+056C", "U+056D",
             "U+056E", "U+056F", "U+0570", "U+0571", "U+0572", "U+0573",
             "U+0574", "U+0575", "U+0576", "U+0577", "U+0578", "U+0579",
             "U+057A", "U+057B", "U+057C", "U+057D", "U+057E", "U+057F", "ր",
             "ց", "ւ", "փ", "ք", "օ", "ֆ", "U+2D00", "U+2D01", "U+2D02",
             "U+2D03", "U+2D04", "U+2D05", "U+2D06", "U+2D07", "U+2D08",
             "U+2D09", "U+2D0A", "U+2D0B", "U+2D0C", "U+2D0D", "U+2D0E",
             "U+2D0F", "U+2D10", "U+2D11", "U+2D12", "U+2D13", "U+2D14",
             "U+2D15", "U+2D16", "U+2D17", "U+2D18", "U+2D19", "U+2D1A",
             "U+2D1B", "U+2D1C", "U+2D1D", "U+2D1E", "U+2D1F", "U+2D20",
             "U+2D21", "U+2D22", "U+2D23", "U+2D24", "U+2D25", "U+2D27",
             "U+2D2D", "U+AB70", "U+AB71", "U+AB72", "U+AB73", "U+AB74",
             "U+AB75", "U+AB76", "U+AB77", "U+AB78", "U+AB79", "U+AB7A",
             "U+AB7B", "U+AB7C", "U+AB7D", "U+AB7E", "U+AB7F", "ꮀ", "ꮁ", "ꮂ",
             "ꮃ", "ꮄ", "ꮅ", "ꮆ", "ꮇ", "ꮈ", "ꮉ", "ꮊ", "ꮋ", "ꮌ", "ꮍ", "ꮎ", "ꮏ",
             "ꮐ", "ꮑ", "ꮒ", "ꮓ", "ꮔ", "ꮕ", "ꮖ", "ꮗ", "ꮘ", "ꮙ", "ꮚ", "ꮛ", "ꮜ",
             "ꮝ", "ꮞ", "ꮟ", "ꮠ", "ꮡ", "ꮢ", "ꮣ", "ꮤ", "ꮥ", "ꮦ", "ꮧ", "ꮨ", "ꮩ",
             "ꮪ", "ꮫ", "ꮬ", "ꮭ", "ꮮ", "ꮯ", "ꮰ", "ꮱ", "ꮲ", "ꮳ", "ꮴ", "ꮵ", "ꮶ",
             "ꮷ", "ꮸ", "ꮹ", "ꮺ", "ꮻ", "ꮼ", "ꮽ", "ꮾ", "ꮿ", "ᏸ", "ᏹ", "ᏺ", "ᏻ",
             "ᏼ", "ᏽ", "ა", "ბ", "გ", "დ", "ე", "ვ", "ზ", "თ", "ი", "კ", "ლ",
             "მ", "ნ", "ო", "პ", "ჟ", "რ", "ს", "ტ", "უ", "ფ", "ქ", "ღ", "ყ",
             "შ", "ჩ", "ც", "ძ", "წ", "ჭ", "ხ", "ჯ", "ჰ", "ჱ", "ჲ", "ჳ", "ჴ",
             "ჵ", "ჶ", "ჷ", "ჸ", "ჹ", "ჺ", "ჽ", "ჾ", "ჿ", "U+1E01", "U+1E03",
             "U+1E05", "U+1E07", "U+1E09", "U+1E0B", "U+1E0D", "U+1E0F",
             "U+1E11", "U+1E13", "U+1E15", "U+1E17", "U+1E19", "U+1E1B",
             "U+1E1D", "U+1E1F", "U+1E21", "U+1E23", "U+1E25", "U+1E27",
             "U+1E29", "U+1E2B", "U+1E2D", "U+1E2F", "U+1E31", "U+1E33",
             "U+1E35", "U+1E37", "U+1E39", "U+1E3B", "U+1E3D", "U+1E3F",
             "U+1E41", "U+1E43", "U+1E45", "U+1E47", "U+1E49", "U+1E4B",
             "U+1E4D", "U+1E4F", "U+1E51", "U+1E53", "U+1E55", "U+1E57",
             "U+1E59", "U+1E5B", "U+1E5D", "U+1E5F", "U+1E61", "U+1E63",
             "U+1E65", "U+1E67", "U+1E69", "U+1E6B", "U+1E6D", "U+1E6F",
             "U+1E71", "U+1E73", "U+1E75", "U+1E77", "U+1E79", "U+1E7B",
             "U+1E7D", "U+1E7F", "ẁ", "ẃ", "ẅ", "ẇ", "ẉ", "ẋ", "ẍ", "ẏ", "ẑ",
             "ẓ", "ẕ", "ß", "ạ", "ả", "ấ", "ầ", "ẩ", "ẫ", "ậ", "ắ", "ằ", "ẳ",
             "ẵ", "ặ", "ẹ", "ẻ", "ẽ", "ế", "ề", "ể", "ễ", "ệ", "ỉ", "ị", "ọ",
             "ỏ", "ố", "ồ", "ổ", "ỗ", "ộ", "ớ", "ờ", "ở", "ỡ", "ợ", "ụ", "ủ",
             "ứ", "ừ", "ử", "ữ", "ự", "ỳ", "ỵ", "ỷ", "ỹ", "ỻ", "ỽ", "ỿ",
             "U+1F00", "U+1F01", "U+1F02", "U+1F03", "U+1F04", "U+1F05",
             "U+1F06", "U+1F07", "U+1F10", "U+1F11", "U+1F12", "U+1F13",
             "U+1F14", "U+1F15", "U+1F20", "U+1F21", "U+1F22", "U+1F23",
             "U+1F24", "U+1F25", "U+1F26", "U+1F27", "U+1F30", "U+1F31",
             "U+1F32", "U+1F33", "U+1F34", "U+1F35", "U+1F36", "U+1F37",
             "U+1F40", "U+1F41", "U+1F42", "U+1F43", "U+1F44", "U+1F45",
             "U+1F51", "U+1F53", "U+1F55", "U+1F57", "U+1F60", "U+1F61",
             "U+1F62", "U+1F63", "U+1F64", "U+1F65", "U+1F66", "U+1F67", "ᾀ",
             "ᾁ", "ᾂ", "ᾃ", "ᾄ", "ᾅ", "ᾆ", "ᾇ", "ᾐ", "ᾑ", "ᾒ", "ᾓ", "ᾔ", "ᾕ",
             "ᾖ", "ᾗ", "ᾠ", "ᾡ", "ᾢ", "ᾣ", "ᾤ", "ᾥ", "ᾦ", "ᾧ", "ᾰ", "ᾱ",
             "U+1F70", "U+1F71", "ᾳ", "U+1F72", "U+1F73", "U+1F74", "U+1F75",
             "ῃ", "ῐ", "ῑ", "U+1F76", "U+1F77", "ῠ", "ῡ", "U+1F7A", "U+1F7B",
             "ῥ", "U+1F78", "U+1F79", "U+1F7C", "U+1F7D", "ῳ", "ω", "k", "å",
             "U+214E", "U+2170", "U+2171", "U+2172", "U+2173", "U+2174",
             "U+2175", "U+2176", "U+2177", "U+2178", "U+2179", "U+217A",
             "U+217B", "U+217C", "U+217D", "U+217E", "U+217F", "ↄ", "ⓐ", "ⓑ",
             "ⓒ", "ⓓ", "ⓔ", "ⓕ", "ⓖ", "ⓗ", "ⓘ", "ⓙ", "ⓚ", "ⓛ", "ⓜ", "ⓝ", "ⓞ",
             "ⓟ", "ⓠ", "ⓡ", "ⓢ", "ⓣ", "ⓤ", "ⓥ", "ⓦ", "ⓧ", "ⓨ", "ⓩ", "U+2C30",
             "U+2C31", "U+2C32", "U+2C33", "U+2C34", "U+2C35", "U+2C36",
             "U+2C37", "U+2C38", "U+2C39", "U+2C3A", "U+2C3B", "U+2C3C",
             "U+2C3D", "U+2C3E", "U+2C3F", "U+2C40", "U+2C41", "U+2C42",
             "U+2C43", "U+2C44", "U+2C45", "U+2C46", "U+2C47", "U+2C48",
             "U+2C49", "U+2C4A", "U+2C4B", "U+2C4C", "U+2C4D", "U+2C4E",
             "U+2C4F", "U+2C50", "U+2C51", "U+2C52", "U+2C53", "U+2C54",
             "U+2C55", "U+2C56", "U+2C57", "U+2C58", "U+2C59", "U+2C5A",
             "U+2C5B", "U+2C5C", "U+2C5D", "U+2C5E", "U+2C5F", "U+2C61",
             "U+026B", "U+1D7D", "U+027D", "U+2C68", "U+2C6A", "U+2C6C",
             "U+0251", "U+0271", "U+0250", "U+0252", "U+2C73", "U+2C76",
             "U+023F", "U+0240", "ⲁ", "ⲃ", "ⲅ", "ⲇ", "ⲉ", "ⲋ", "ⲍ", "ⲏ", "ⲑ",
             "ⲓ", "ⲕ", "ⲗ", "ⲙ", "ⲛ", "ⲝ", "ⲟ", "ⲡ", "ⲣ", "ⲥ", "ⲧ", "ⲩ", "ⲫ",
             "ⲭ", "ⲯ", "ⲱ", "ⲳ", "ⲵ", "ⲷ", "ⲹ", "ⲻ", "ⲽ", "ⲿ", "ⳁ", "ⳃ", "ⳅ",
             "ⳇ", "ⳉ", "ⳋ", "ⳍ", "ⳏ", "ⳑ", "ⳓ", "ⳕ", "ⳗ", "ⳙ", "ⳛ", "ⳝ", "ⳟ",
             "ⳡ", "ⳣ", "ⳬ", "ⳮ", "ⳳ", "U+A641", "U+A643", "U+A645", "U+A647",
             "U+A649", "U+A64B", "U+A64D", "U+A64F", "U+A651", "U+A653",
             "U+A655", "U+A657", "U+A659", "U+A65B", "U+A65D", "U+A65F",
             "U+A661", "U+A663", "U+A665", "U+A667", "U+A669", "U+A66B",
             "U+A66D", "ꚁ", "ꚃ", "ꚅ", "ꚇ", "ꚉ", "ꚋ", "ꚍ", "ꚏ", "ꚑ", "ꚓ", "ꚕ",
             "ꚗ", "ꚙ", "ꚛ", "U+A723", "U+A725", "U+A727", "U+A729", "U+A72B",
             "U+A72D", "U+A72F", "U+A733", "U+A735", "U+A737", "U+A739",
             "U+A73B", "U+A73D", "U+A73F", "U+A741", "U+A743", "U+A745",
             "U+A747", "U+A749", "U+A74B", "U+A74D", "U+A74F", "U+A751",
             "U+A753", "U+A755", "U+A757", "U+A759", "U+A75B", "U+A75D",
             "U+A75F", "U+A761", "U+A763", "U+A765", "U+A767", "U+A769",
             "U+A76B", "U+A76D", "U+A76F", "U+A77A", "U+A77C", "U+1D79",
             "U+A77F", "ꞁ", "ꞃ", "ꞅ", "ꞇ", "ꞌ", "U+0265", "ꞑ", "ꞓ", "ꞗ", "ꞙ",
             "ꞛ", "ꞝ", "ꞟ", "ꞡ", "ꞣ", "ꞥ", "ꞧ", "ꞩ", "U+0266", "U+025C",
             "U+0261", "U+026C", "U+026A", "ʞ", "ʇ", "ʝ", "U+AB53", "ꞵ", "ꞷ",
             "ꞹ", "ꞻ", "ꞽ", "ꞿ", "ꟁ", "ꟃ", "ꞔ", "ʂ", "ᶎ", "ꟈ", "ꟊ", "ꟑ", "ꟗ",
             "ꟙ", "ꟶ", "U+FF41", "U+FF42", "U+FF43", "U+FF44", "U+FF45",
             "U+FF46", "U+FF47", "U+FF48", "U+FF49", "U+FF4A", "U+FF4B",
             "U+FF4C", "U+FF4D", "U+FF4E", "U+FF4F", "U+FF50", "U+FF51",
             "U+FF52", "U+FF53", "U+FF54", "U+FF55", "U+FF56", "U+FF57",
             "U+FF58", "U+FF59", "U+FF5A", "U+10428", "U+10429", "U+1042A",
             "U+1042B", "U+1042C", "U+1042D", "U+1042E", "U+1042F", "U+10430",
             "U+10431", "U+10432", "U+10433", "U+10434", "U+10435", "U+10436",
             "U+10437", "U+10438", "U+10439", "U+1043A", "U+1043B", "U+1043C",
             "U+1043D", "U+1043E", "U+1043F", "U+10440", "U+10441", "U+10442",
             "U+10443", "U+10444", "U+10445", "U+10446", "U+10447", "U+10448",
             "U+10449", "U+1044A", "U+1044B", "U+1044C", "U+1044D", "U+1044E",
             "U+1044F", "U+104D8", "U+104D9", "U+104DA", "U+104DB", "U+104DC",
             "U+104DD", "U+104DE", "U+104DF", "U+104E0", "U+104E1", "U+104E2",
             "U+104E3", "U+104E4", "U+104E5", "U+104E6", "U+104E7", "U+104E8",
             "U+104E9", "U+104EA", "U+104EB", "U+104EC", "U+104ED", "U+104EE",
             "U+104EF", "U+104F0", "U+104F1", "U+104F2", "U+104F3", "U+104F4",
             "U+104F5", "U+104F6", "U+104F7", "U+104F8", "U+104F9", "U+104FA",
             "U+104FB", "U+10597", "U+10598", "U+10599", "U+1059A", "U+1059B",
             "U+1059C", "U+1059D", "U+1059E", "U+1059F", "U+105A0", "U+105A1",
             "U+105A3", "U+105A4", "U+105A5", "U+105A6", "U+105A7", "U+105A8",
             "U+105A9", "U+105AA", "U+105AB", "U+105AC", "U+105AD", "U+105AE",
             "U+105AF", "U+105B0", "U+105B1", "U+105B3", "U+105B4", "U+105B5",
             "U+105B6", "U+105B7", "U+105B8", "U+105B9", "U+105BB", "U+105BC",
             "U+10CC0", "U+10CC1", "U+10CC2", "U+10CC3", "U+10CC4", "U+10CC5",
             "U+10CC6", "U+10CC7", "U+10CC8", "U+10CC9", "U+10CCA", "U+10CCB",
             "U+10CCC", "U+10CCD", "U+10CCE", "U+10CCF", "U+10CD0", "U+10CD1",
             "U+10CD2", "U+10CD3", "U+10CD4", "U+10CD5", "U+10CD6", "U+10CD7",
             "U+10CD8", "U+10CD9", "U+10CDA", "U+10CDB", "U+10CDC", "U+10CDD",
             "U+10CDE", "U+10CDF", "U+10CE0", "U+10CE1", "U+10CE2", "U+10CE3",
             "U+10CE4", "U+10CE5", "U+10CE6", "U+10CE7", "U+10CE8", "U+10CE9",
             "U+10CEA", "U+10CEB", "U+10CEC", "U+10CED", "U+10CEE", "U+10CEF",
             "U+10CF0", "U+10CF1", "U+10CF2", "U+118C0", "U+118C1", "U+118C2",
             "U+118C3", "U+118C4", "U+118C5", "U+118C6", "U+118C7", "U+118C8",
             "U+118C9", "U+118CA", "U+118CB", "U+118CC", "U+118CD", "U+118CE",
             "U+118CF", "U+118D0", "U+118D1", "U+118D2", "U+118D3", "U+118D4",
             "U+118D5", "U+118D6", "U+118D7", "U+118D8", "U+118D9", "U+118DA",
             "U+118DB", "U+118DC", "U+118DD", "U+118DE", "U+118DF", "U+16E60",
             "U+16E61", "U+16E62", "U+16E63", "U+16E64", "U+16E65", "U+16E66",
             "U+16E67", "U+16E68", "U+16E69", "U+16E6A", "U+16E6B", "U+16E6C",
             "U+16E6D", "U+16E6E", "U+16E6F", "U+16E70", "U+16E71", "U+16E72",
             "U+16E73", "U+16E74", "U+16E75", "U+16E76", "U+16E77", "U+16E78",
             "U+16E79", "U+16E7A", "U+16E7B", "U+16E7C", "U+16E7D", "U+16E7E",
             "U+16E7F", "U+1E922", "U+1E923", "U+1E924", "U+1E925", "U+1E926",
             "U+1E927", "U+1E928", "U+1E929", "U+1E92A", "U+1E92B", "U+1E92C",
             "U+1E92D", "U+1E92E", "U+1E92F", "U+1E930", "U+1E931", "U+1E932",
             "U+1E933", "U+1E934", "U+1E935", "U+1E936", "U+1E937", "U+1E938",
             "U+1E939", "U+1E93A", "U+1E93B", "U+1E93C", "U+1E93D", "U+1E93E",
             "U+1E93F", "U+1E940", "U+1E941", "U+1E942", "U+1E943" >>,
    xfrom |-> << "U+0130" >>,
    x1 |->   << "i" >>,
    x2 |->   << "U+0307" >>,
    x3 |->   << "" >> ]

\* the characters str.lower() skips when it looks for the letters around a
\* capital sigma
CASE_IGNORABLE ==
  { "'", ".", ":", "^", "U+0060", "¨", "­", "¯", "´", "·", "¸", "ʰ", "ʱ", "ʲ",
    "ʳ", "ʴ", "ʵ", "ʶ", "ʷ", "ʸ", "ʹ", "ʺ", "ʻ", "ʼ", "ʽ", "ʾ", "ʿ", "ˀ", "ˁ",
    "˂", "˃", "˄", "˅", "ˆ", "ˇ", "ˈ", "ˉ", "ˊ", "ˋ", "ˌ", "ˍ", "ˎ", "ˏ", "ː",
    "ˑ", "˒", "˓", "˔", "˕", "˖", "˗", "˘", "˙", "˚", "˛", "˜", "˝", "˞", "˟",
    "ˠ", "ˡ", "ˢ", "ˣ", "ˤ", "˥", "˦", "˧", "˨", "˩", "˪", "˫", "ˬ", "˭", "ˮ",
    "˯", "˰", "˱", "˲", "˳", "˴", "˵", "˶", "˷", "˸", "˹", "˺", "˻", "˼", "˽",
    "˾", "˿", "U+0300", "U+0301", "U+0302", "U+0303", "U+0304", "U+0305",
    "U+0306", "U+0307", "U+0308", "U+0309", "U+030A", "U+030B", "U+030C",
    "U+030D", "U+030E", "U+030F", "U+0310", "U+0311", "U+0312", "U+0313",
    "U+0314", "U+0315", "U+0316", "U+0317", "U+0318", "U+0319", "U+031A",
    "U+031B", "U+031C", "U+031D", "U+031E", "U+031F", "U+0320", "U+0321",
    "U+0322", "U+0323", "U+0324", "U+0325", "U+0326", "U+0327", "U+0328",
    "U+0329", "U+032A", "U+032B", "U+032C", "U+032D", "U+032E", "U+032F",
    "U+0330", "U+0331", "U+0332", "U+0333", "U+0334", "U+0335", "U+0336",
    "U+0337", "U+0338", "U+0339", "U+033A", "U+033B", "U+033C", "U+033D",
    "U+033E", "U+033F", "U+0340", "U+0341", "U+0342", "U+0343", "U+0344",
    "U+0345", "U+0346", "U+0347", "U+0348", "U+0349", "U+034A", "U+034B",
    "U+034C", "U+034D", "U+034E", "U+034F", "U+0350", "U+0351", "U+0352",
    "U+0353", "U+0354", "U+0355", "U+0356", "U+0357", "U+0358", "U+0359",
    "U+035A", "U+035B", "U+035C", "U+035D", "U+035E", "U+035F", "U+0360",
    "U+0361", "U+0362", "U+0363", "U+0364", "U+0365", "U+0366", "U+0367",
    "U+0368", "U+0369", "U+036A", "U+036B", "U+036C", "U+036D", "U+036E",
    "U+036F", "U+0374", "U+0375", "U+037A", "΄", "΅", "·", "҃", "҄", "҅", "҆",
    "҇", "҈", "҉", "U+0559", "U+055F", "֑", "֒", "֓", "֔", "֕", "֖", "֗", "֘",
    "֙", "֚", "֛", "֜", "֝", "֞", "֟", "֠", "֡", "֢", "֣", "֤", "֥", "֦", "֧",
    "֨", "֩", "֪", "֫", "֬", "֭", "֮", "֯", "ְ", "ֱ", "ֲ", "ֳ", "ִ", "ֵ", "ֶ",
    "ַ", "ָ", "ֹ", "ֺ", "ֻ", "ּ", "ֽ", "ֿ", "ׁ", "ׂ", "ׄ", "ׅ", "ׇ", "״",
    "U+0600", "U+0601", "U+0602", "U+0603", "U+0604", "U+0605", "U+0610",
    "U+0611", "U+0612", "U+0613", "U+0614", "U+0615", "U+0616", "U+0617",
    "U+0618", "U+0619", "U+061A", "U+061C", "U+0640", "U+064B", "U+064C",
    "U+064D", "U+064E", "U+064F", "U+0650", "U+0651", "U+0652", "U+0653",
    "U+0654", "U+0655", "U+0656", "U+0657", "U+0658", "U+0659", "U+065A",
    "U+065B", "U+065C", "U+065D", "U+065E", "U+065F", "U+0670", "ۖ", "ۗ", "ۘ",
    "ۙ", "ۚ", "ۛ", "ۜ", "۝", "۟", "۠", "ۡ", "ۢ", "ۣ", "ۤ", "ۥ", "ۦ", "ۧ", "ۨ",
    "۪", "۫", "۬", "ۭ", "U+070F", "U+0711", "U+0730", "U+0731", "U+0732",
    "U+0733", "U+0734", "U+0735", "U+0736", "U+0737", "U+0738", "U+0739",
    "U+073A", "U+073B", "U+073C", "U+073D", "U+073E", "U+073F", "U+0740",
    "U+0741", "U+0742", "U+0743", "U+0744", "U+0745", "U+0746", "U+0747",
    "U+0748", "U+0749", "U+074A", "ަ", "ާ", "ި", "ީ", "ު", "ޫ", "ެ", "ޭ", "ޮ",
    "ޯ", "ް", "߫", "߬", "߭", "߮", "߯", "߰", "߱", "߲", "߳", "ߴ", "ߵ", "ߺ", "߽",
    "U+0816", "U+0817", "U+0818", "U+0819", "U+081A", "U+081B", "U+081C",
    "U+081D", "U+081E", "U+081F", "U+0820", "U+0821", "U+0822", "U+0823",
    "U+0824", "U+0825", "U+0826", "U+0827", "U+0828", "U+0829", "U+082A",
    "U+082B", "U+082C", "U+082D", "U+0859", "U+085A", "U+085B", "࢈", "࢐", "࢑",
    "࢘", "࢙", "࢚", "࢛", "࢜", "࢝", "࢞", "࢟", "ࣉ", "࣊", "࣋", "࣌", "࣍", "࣎", "࣏",
    "࣐", "࣑", "࣒", "࣓", "ࣔ", "ࣕ", "ࣖ", "ࣗ", "ࣘ", "ࣙ", "ࣚ", "ࣛ", "ࣜ", "ࣝ", "ࣞ",
    "ࣟ", "࣠", "࣡", "࣢", "ࣣ", "ࣤ", "ࣥ", "ࣦ", "ࣧ", "ࣨ", "ࣩ", "࣪", "࣫", "࣬", "࣭",
    "࣮", "࣯", "ࣰ", "ࣱ", "ࣲ", "ࣳ", "ࣴ", "ࣵ", "ࣶ", "ࣷ", "ࣸ", "ࣹ", "ࣺ", "ࣻ", "ࣼ",
    "ࣽ", "ࣾ", "ࣿ", "U+0900", "U+0901", "U+0902", "U+093A", "U+093C", "U+0941",
    "U+0942", "U+0943", "U+0944", "U+0945", "U+0946", "U+0947", "U+0948",
    "U+094D", "U+0951", "U+0952", "U+0953", "U+0954", "U+0955", "U+0956",
    "U+0957", "U+0962", "U+0963", "U+0971", "ঁ", "়", "ু", "ূ", "ৃ", "ৄ", "্",
    "ৢ", "ৣ", "৾", "U+0A01", "U+0A02", "U+0A3C", "U+0A41", "U+0A42", "U+0A47",
    "U+0A48", "U+0A4B", "U+0A4C", "U+0A4D", "U+0A51", "U+0A70", "U+0A71",
    "U+0A75", "ઁ", "ં", "઼", "ુ", "ૂ", "ૃ", "ૄ", "ૅ", "ે", "ૈ", "્", "ૢ", "ૣ",
    "ૺ", "ૻ", "ૼ", "૽", "૾", "૿", "U+0B01", "U+0B3C", "U+0B3F", "U+0B41",
    "U+0B42", "U+0B43", "U+0B44", "U+0B4D", "U+0B55", "U+0B56", "U+0B62",
    "U+0B63", "ஂ", "ீ", "்", "U+0C00", "U+0C04", "U+0C3C", "U+0C3E", "U+0C3F",
    "U+0C40", "U+0C46", "U+0C47", "U+0C48", "U+0C4A", "U+0C4B", "U+0C4C",
    "U+0C4D", "U+0C55", "U+0C56", "U+0C62", "U+0C63", "ಁ", "಼", "ಿ", "ೆ", "ೌ",
    "್", "ೢ", "ೣ", "U+0D00", "U+0D01", "U+0D3B", "U+0D3C", "U+0D41", "U+0D42",
    "U+0D43", "U+0D44", "U+0D4D", "U+0D62", "U+0D63", "ඁ", "්", "ි", "ී", "ු",
    "ූ", "U+0E31", "U+0E34", "U+0E35", "U+0E36", "U+0E37", "U+0E38", "U+0E39",
    "U+0E3A", "U+0E46", "U+0E47", "U+0E48", "U+0E49", "U+0E4A", "U+0E4B",
    "U+0E4C", "U+0E4D", "U+0E4E", "ັ", "ິ", "ີ", "ຶ", "ື", "ຸ", "ູ", "຺", "ົ",
    "ຼ", "ໆ", "່", "້", "໊", "໋", "໌", "ໍ", "U+0F18", "U+0F19", "U+0F35",
    "U+0F37", "U+0F39", "U+0F71", "U+0F72", "U+0F73", "U+0F74", "U+0F75",
    "U+0F76", "U+0F77", "U+0F78", "U+0F79", "U+0F7A", "U+0F7B", "U+0F7C",
    "U+0F7D", "U+0F7E", "ྀ", "ཱྀ", "ྂ", "ྃ", "྄", "྆", "྇", "ྍ", "ྎ", "ྏ", "ྐ",
    "ྑ", "ྒ", "ྒྷ", "ྔ", "ྕ", "ྖ", "ྗ", "ྙ", "ྚ", "ྛ", "ྜ", "ྜྷ", "ྞ", "ྟ", "ྠ",
    "ྡ", "ྡྷ", "ྣ", "ྤ", "ྥ", "ྦ", "ྦྷ", "ྨ", "ྩ", "ྪ", "ྫ", "ྫྷ", "ྭ", "ྮ", "ྯ",
    "ྰ", "ྱ", "ྲ", "ླ", "ྴ", "ྵ", "ྶ", "ྷ", "ྸ", "ྐྵ", "ྺ", "ྻ", "ྼ", "࿆",
    "U+102D", "U+102E", "U+102F", "U+1030", "U+1032", "U+1033", "U+1034",
    "U+1035", "U+1036", "U+1037", "U+1039", "U+103A", "U+103D", "U+103E",
    "U+1058", "U+1059", "U+105E", "U+105F", "U+1060", "U+1071", "U+1072",
    "U+1073", "U+1074", "ႂ", "ႅ", "ႆ", "ႍ", "ႝ", "ჼ", "U+135D", "U+135E",
    "U+135F", "U+1712", "U+1713", "U+1714", "U+1732", "U+1733", "U+1752",
    "U+1753", "U+1772", "U+1773", "឴", "឵", "ិ", "ី", "ឹ", "ឺ", "ុ", "ូ", "ួ",
    "ំ", "៉", "៊", "់", "៌", "៍", "៎", "៏", "័", "៑", "្", "៓", "ៗ", "៝",
    "U+180B", "U+180C", "U+180D", "U+180E", "U+180F", "U+1843", "ᢅ", "ᢆ", "ᢩ",
    "U+1920", "U+1921", "U+1922", "U+1927", "U+1928", "U+1932", "U+1939",
    "U+193A", "U+193B", "U+1A17", "U+1A18", "U+1A1B", "U+1A56", "U+1A58",
    "U+1A59", "U+1A5A", "U+1A5B", "U+1A5C", "U+1A5D", "U+1A5E", "U+1A60",
    "U+1A62", "U+1A65", "U+1A66", "U+1A67", "U+1A68", "U+1A69", "U+1A6A",
    "U+1A6B", "U+1A6C", "U+1A73", "U+1A74", "U+1A75", "U+1A76", "U+1A77",
    "U+1A78", "U+1A79", "U+1A7A", "U+1A7B", "U+1A7C", "U+1A7F", "ᪧ", "᪰", "᪱",
    "᪲", "᪳", "᪴", "᪵", "᪶", "᪷", "᪸", "᪹", "᪺", "᪻", "᪼", "᪽", "᪾", "ᪿ", "ᫀ",
    "᫁", "᫂", "᫃", "᫄", "᫅", "᫆", "᫇", "᫈", "᫉", "᫊", "᫋", "ᫌ", "ᫍ", "ᫎ",
    "U+1B00", "U+1B01", "U+1B02", "U+1B03", "U+1B34", "U+1B36", "U+1B37",
    "U+1B38", "U+1B39", "U+1B3A", "U+1B3C", "U+1B42", "U+1B6B", "U+1B6C",
    "U+1B6D", "U+1B6E", "U+1B6F", "U+1B70", "U+1B71", "U+1B72", "U+1B73", "ᮀ",
    "ᮁ", "ᮢ", "ᮣ", "ᮤ", "ᮥ", "ᮨ", "ᮩ", "᮫", "ᮬ", "ᮭ", "᯦", "ᯨ", "ᯩ", "ᯭ", "ᯯ",
    "ᯰ", "ᯱ", "U+1C2C", "U+1C2D", "U+1C2E", "U+1C2F", "U+1C30", "U+1C31",
    "U+1C32", "U+1C33", "U+1C36", "U+1C37", "U+1C78", "U+1C79", "U+1C7A",
    "U+1C7B", "U+1C7C", "U+1C7D", "᳐", "᳑", "᳒", "᳔", "᳕", "᳖", "᳗", "᳘", "᳙",
    "᳚", "᳛", "᳜", "᳝", "᳞", "᳟", "᳠", "᳢", "᳣", "᳤", "᳥", "᳦", "᳧", "᳨", "᳭",
    "᳴", "᳸", "᳹", "U+1D2C", "U+1D2D", "U+1D2E", "U+1D2F", "U+1D30", "U+1D31",
    "U+1D32", "U+1D33", "U+1D34", "U+1D35", "U+1D36", "U+1D37", "U+1D38",
    "U+1D39", "U+1D3A", "U+1D3B", "U+1D3C", "U+1D3D", "U+1D3E", "U+1D3F",
    "U+1D40", "U+1D41", "U+1D42", "U+1D43", "U+1D44", "U+1D45", "U+1D46",
    "U+1D47", "U+1D48", "U+1D49", "U+1D4A", "U+1D4B", "U+1D4C", "U+1D4D",
    "U+1D4E", "U+1D4F", "U+1D50", "U+1D51", "U+1D52", "U+1D53", "U+1D54",
    "U+1D55", "U+1D56", "U+1D57", "U+1D58", "U+1D59", "U+1D5A", "U+1D5B",
    "U+1D5C", "U+1D5D", "U+1D5E", "U+1D5F", "U+1D60", "U+1D61", "U+1D62",
    "U+1D63", "U+1D64", "U+1D65", "U+1D66", "U+1D67", "U+1D68", "U+1D69",
    "U+1D6A", "U+1D78", "ᶛ", "ᶜ", "ᶝ", "ᶞ", "ᶟ", "ᶠ", "ᶡ", "ᶢ", "ᶣ", "ᶤ", "ᶥ",
    "ᶦ", "ᶧ", "ᶨ", "ᶩ", "ᶪ", "ᶫ", "ᶬ", "ᶭ", "ᶮ", "ᶯ", "ᶰ", "ᶱ", "ᶲ", "ᶳ", "ᶴ",
    "ᶵ", "ᶶ", "ᶷ", "ᶸ", "ᶹ", "ᶺ", "ᶻ", "ᶼ", "ᶽ", "ᶾ", "ᶿ", "᷀", "᷁", "᷂", "᷃",
    "᷄", "᷅", "᷆", "᷇", "᷈", "᷉", "᷊", "᷋", "᷌", "᷍", "᷎", "᷏", "᷐", "᷑", "᷒",
    "ᷓ", "ᷔ", "ᷕ", "ᷖ", "ᷗ", "ᷘ", "ᷙ", "ᷚ", "ᷛ", "ᷜ", "ᷝ", "ᷞ", "ᷟ", "ᷠ", "ᷡ",
    "ᷢ", "ᷣ", "ᷤ", "ᷥ", "ᷦ", "ᷧ", "ᷨ", "ᷩ", "ᷪ", "ᷫ", "ᷬ", "ᷭ", "ᷮ", "ᷯ", "ᷰ",
    "ᷱ", "ᷲ", "ᷳ", "ᷴ", "᷵", "᷶", "᷷", "᷸", "᷹", "᷺", "᷻", "᷼", "᷽", "᷾", "᷿",
    "᾽", "᾿", "῀", "῁", "῍", "῎", "῏", "῝", "῞", "῟", "῭", "΅", "`", "´", "῾",
    "U+200B", "U+200C", "U+200D", "U+200E", "U+200F", "U+2018", "U+2019",
    "U+2024", "U+2027", "U+202A", "U+202B", "U+202C", "U+202D", "U+202E",
    "U+2060", "U+2061", "U+2062", "U+2063", "U+2064", "U+2066", "U+2067",
    "U+2068", "U+2069", "U+206A", "U+206B", "U+206C", "U+206D", "U+206E",
    "U+206F", "U+2071", "U+207F", "ₐ", "ₑ", "ₒ", "ₓ", "ₔ", "ₕ", "ₖ", "ₗ", "ₘ",
    "ₙ", "ₚ", "ₛ", "ₜ", "⃐", "⃑", "⃒", "⃓", "⃔", "⃕", "⃖", "⃗", "⃘", "⃙", "⃚",
    "⃛", "⃜", "⃝", "⃞", "⃟", "⃠", "⃡", "⃢", "⃣", "⃤", "⃥", "⃦", "⃧", "⃨", "⃩",
    "⃪", "⃫", "⃬", "⃭", "⃮", "⃯", "⃰", "U+2C7C", "U+2C7D", "⳯", "⳰", "⳱",
    "U+2D6F", "U+2D7F", "ⷠ", "ⷡ", "ⷢ", "ⷣ", "ⷤ", "ⷥ", "ⷦ", "ⷧ", "ⷨ", "ⷩ", "ⷪ",
    "ⷫ", "ⷬ", "ⷭ", "ⷮ", "ⷯ", "ⷰ", "ⷱ", "ⷲ", "ⷳ", "ⷴ", "ⷵ", "ⷶ", "ⷷ", "ⷸ", "ⷹ",
    "ⷺ", "ⷻ", "ⷼ", "ⷽ", "ⷾ", "ⷿ", "U+2E2F", "U+3005", "U+302A", "U+302B",
    "U+302C", "U+302D", "U+3031", "U+3032", "U+3033", "U+3034", "U+3035",
    "U+303B", "゙", "゚", "゛", "゜", "ゝ", "ゞ", "ー", "ヽ", "ヾ", "U+A015", "ꓸ", "ꓹ",
    "ꓺ", "ꓻ", "ꓼ", "ꓽ", "U+A60C", "U+A66F", "U+A670", "U+A671", "U+A672",
    "U+A674", "U+A675", "U+A676", "U+A677", "U+A678", "U+A679", "U+A67A",
    "U+A67B", "U+A67C", "U+A67D", "U+A67F", "ꚜ", "ꚝ", "ꚞ", "ꚟ", "꛰", "꛱",
    "U+A700", "U+A701", "U+A702", "U+A703", "U+A704", "U+A705", "U+A706",
    "U+A707", "U+A708", "U+A709", "U+A70A", "U+A70B", "U+A70C", "U+A70D",
    "U+A70E", "U+A70F", "U+A710", "U+A711", "U+A712", "U+A713", "U+A714",
    "U+A715", "U+A716", "U+A717", "U+A718", "U+A719", "U+A71A", "U+A71B",
    "U+A71C", "U+A71D", "U+A71E", "U+A71F", "U+A720", "U+A721", "U+A770", "ꞈ",
    "꞉", "꞊", "ꟲ", "ꟳ", "ꟴ", "ꟸ", "ꟹ", "U+A802", "U+A806", "U+A80B", "U+A825",
    "U+A826", "U+A82C", "꣄", "ꣅ", "꣠", "꣡", "꣢", "꣣", "꣤", "꣥", "꣦", "꣧", "꣨",
    "꣩", "꣪", "꣫", "꣬", "꣭", "꣮", "꣯", "꣰", "꣱", "ꣿ", "U+A926", "U+A927",
    "U+A928", "U+A929", "U+A92A", "U+A92B", "U+A92C", "U+A92D", "U+A947",
    "U+A948", "U+A949", "U+A94A", "U+A94B", "U+A94C", "U+A94D", "U+A94E",
    "U+A94F", "U+A950", "U+A951", "ꦀ", "ꦁ", "ꦂ", "꦳", "ꦶ", "ꦷ", "ꦸ", "ꦹ", "ꦼ",
    "ꦽ", "ꧏ", "ꧥ", "ꧦ", "U+AA29", "U+AA2A", "U+AA2B", "U+AA2C", "U+AA2D",
    "U+AA2E", "U+AA31", "U+AA32", "U+AA35", "U+AA36", "U+AA43", "U+AA4C",
    "U+AA70", "U+AA7C", "ꪰ", "ꪲ", "ꪳ", "ꪴ", "ꪷ", "ꪸ", "ꪾ", "꪿", "꫁", "ꫝ", "ꫬ",
    "ꫭ", "ꫳ", "ꫴ", "꫶", "U+AB5B", "U+AB5C", "U+AB5D", "U+AB5E", "U+AB5F",
    "U+AB69", "U+AB6A", "U+AB6B", "ꯥ", "ꯨ", "꯭", "U+FB1E", "﮲", "﮳", "﮴", "﮵",
    "﮶", "﮷", "﮸", "﮹", "﮺", "﮻", "﮼", "﮽", "﮾", "﮿", "﯀", "﯁", "﯂", "U+FE00",
    "U+FE01", "U+FE02", "U+FE03", "U+FE04", "U+FE05", "U+FE06", "U+FE07",
    "U+FE08", "U+FE09", "U+FE0A", "U+FE0B", "U+FE0C", "U+FE0D", "U+FE0E",
    "U+FE0F", "U+FE13", "U+FE20", "U+FE21", "U+FE22", "U+FE23", "U+FE24",
    "U+FE25", "U+FE26", "U+FE27", "U+FE28", "U+FE29", "U+FE2A", "U+FE2B",
    "U+FE2C", "U+FE2D", "U+FE2E", "U+FE2F", "U+FE52", "U+FE55", "﻿", "U+FF07",
    "U+FF0E", "U+FF1A", "U+FF3E", "U+FF40", "U+FF70", "ﾞ", "ﾟ", "￣", "￹", "￺",
    "￻", "U+101FD", "U+102E0", "U+10376", "U+10377", "U+10378", "U+10379",
    "U+1037A", "U+10780", "U+10781", "U+10782", "U+10783", "U+10784",
    "U+10785", "U+10787", "U+10788", "U+10789", "U+1078A", "U+1078B",
    "U+1078C", "U+1078D", "U+1078E", "U+1078F", "U+10790", "U+10791",
    "U+10792", "U+10793", "U+10794", "U+10795", "U+10796", "U+10797",
    "U+10798", "U+10799", "U+1079A", "U+1079B", "U+1079C", "U+1079D",
    "U+1079E", "U+1079F", "U+107A0", "U+107A1", "U+107A2", "U+107A3",
    "U+107A4", "U+107A5", "U+107A6", "U+107A7", "U+107A8", "U+107A9",
    "U+107AA", "U+107AB", "U+107AC", "U+107AD", "U+107AE", "U+107AF",
    "U+107B0", "U+107B2", "U+107B3", "U+107B4", "U+107B5", "U+107B6",
    "U+107B7", "U+107B8", "U+107B9", "U+107BA", "U+10A01", "U+10A02",
    "U+10A03", "U+10A05", "U+10A06", "U+10A0C", "U+10A0D", "U+10A0E",
    "U+10A0F", "U+10A38", "U+10A39", "U+10A3A", "U+10A3F", "U+10AE5",
    "U+10AE6", "U+10D24", "U+10D25", "U+10D26", "U+10D27", "U+10EAB",
    "U+10EAC", "U+10F46", "U+10F47", "U+10F48", "U+10F49", "U+10F4A",
    "U+10F4B", "U+10F4C", "U+10F4D", "U+10F4E", "U+10F4F", "U+10F50",
    "U+10F82", "U+10F83", "U+10F84", "U+10F85", "U+11001", "U+11038",
    "U+11039", "U+1103A", "U+1103B", "U+1103C", "U+1103D", "U+1103E",
    "U+1103F", "U+11040", "U+11041", "U+11042", "U+11043", "U+11044",
    "U+11045", "U+11046", "U+11070", "U+11073", "U+11074", "U+1107F",
    "U+11080", "U+11081", "U+110B3", "U+110B4", "U+110B5", "U+110B6",
    "U+110B9", "U+110BA", "U+110BD", "U+110C2", "U+110CD", "U+11100",
    "U+11101", "U+11102", "U+11127", "U+11128", "U+11129", "U+1112A",
    "U+1112B", "U+1112D", "U+1112E", "U+1112F", "U+11130", "U+11131",
    "U+11132", "U+11133", "U+11134", "U+11173", "U+11180", "U+11181",
    "U+111B6", "U+111B7", "U+111B8", "U+111B9", "U+111BA", "U+111BB",
    "U+111BC", "U+111BD", "U+111BE", "U+111C9", "U+111CA", "U+111CB",
    "U+111CC", "U+111CF", "U+1122F", "U+11230", "U+11231", "U+11234",
    "U+11236", "U+11237", "U+1123E", "U+112DF", "U+112E3", "U+112E4",
    "U+112E5", "U+112E6", "U+112E7", "U+112E8", "U+112E9", "U+112EA",
    "U+11300", "U+11301", "U+1133B", "U+1133C", "U+11340", "U+11366",
    "U+11367", "U+11368", "U+11369", "U+1136A", "U+1136B", "U+1136C",
    "U+11370", "U+11371", "U+11372", "U+11373", "U+11374", "U+11438",
    "U+11439", "U+1143A", "U+1143B", "U+1143C", "U+1143D", "U+1143E",
    "U+1143F", "U+11442", "U+11443", "U+11444", "U+11446", "U+1145E",
    "U+114B3", "U+114B4", "U+114B5", "U+114B6", "U+114B7", "U+114B8",
    "U+114BA", "U+114BF", "U+114C0", "U+114C2", "U+114C3", "U+115B2",
    "U+115B3", "U+115B4", "U+115B5", "U+115BC", "U+115BD", "U+115BF",
    "U+115C0", "U+115DC", "U+115DD", "U+11633", "U+11634", "U+11635",
    "U+11636", "U+11637", "U+11638", "U+11639", "U+1163A", "U+1163D",
    "U+1163F", "U+11640", "U+116AB", "U+116AD", "U+116B0", "U+116B1",
    "U+116B2", "U+116B3", "U+116B4", "U+116B5", "U+116B7", "U+1171D",
    "U+1171E", "U+1171F", "U+11722", "U+11723", "U+11724", "U+11725",
    "U+11727", "U+11728", "U+11729", "U+1172A", "U+1172B", "U+1182F",
    "U+11830", "U+11831", "U+11832", "U+11833", "U+11834", "U+11835",
    "U+11836", "U+11837", "U+11839", "U+1183A", "U+1193B", "U+1193C",
    "U+1193E", "U+11943", "U+119D4", "U+119D5", "U+119D6", "U+119D7",
    "U+119DA", "U+119DB", "U+119E0", "U+11A01", "U+11A02", "U+11A03",
    "U+11A04", "U+11A05", "U+11A06", "U+11A07", "U+11A08", "U+11A09",
    "U+11A0A", "U+11A33", "U+11A34", "U+11A35", "U+11A36", "U+11A37",
    "U+11A38", "U+11A3B", "U+11A3C", "U+11A3D", "U+11A3E", "U+11A47",
    "U+11A51", "U+11A52", "U+11A53", "U+11A54", "U+11A55", "U+11A56",
    "U+11A59", "U+11A5A", "U+11A5B", "U+11A8A", "U+11A8B", "U+11A8C",
    "U+11A8D", "U+11A8E", "U+11A8F", "U+11A90", "U+11A91", "U+11A92",
    "U+11A93", "U+11A94", "U+11A95", "U+11A96", "U+11A98", "U+11A99",
    "U+11C30", "U+11C31", "U+11C32", "U+11C33", "U+11C34", "U+11C35",
    "U+11C36", "U+11C38", "U+11C39", "U+11C3A", "U+11C3B", "U+11C3C",
    "U+11C3D", "U+11C3F", "U+11C92", "U+11C93", "U+11C94", "U+11C95",
    "U+11C96", "U+11C97", "U+11C98", "U+11C99", "U+11C9A", "U+11C9B",
    "U+11C9C", "U+11C9D", "U+11C9E", "U+11C9F", "U+11CA0", "U+11CA1",
    "U+11CA2", "U+11CA3", "U+11CA4", "U+11CA5", "U+11CA6", "U+11CA7",
    "U+11CAA", "U+11CAB", "U+11CAC", "U+11CAD", "U+11CAE", "U+11CAF",
    "U+11CB0", "U+11CB2", "U+11CB3", "U+11CB5", "U+11CB6", "U+11D31",
    "U+11D32", "U+11D33", "U+11D34", "U+11D35", "U+11D36", "U+11D3A",
    "U+11D3C", "U+11D3D", "U+11D3F", "U+11D40", "U+11D41", "U+11D42",
    "U+11D43", "U+11D44", "U+11D45", "U+11D47", "U+11D90", "U+11D91",
    "U+11D95", "U+11D97", "U+11EF3", "U+11EF4", "U+13430", "U+13431",
    "U+13432", "U+13433", "U+13434", "U+13435", "U+13436", "U+13437",
    "U+13438", "U+16AF0", "U+16AF1", "U+16AF2", "U+16AF3", "U+16AF4",
    "U+16B30", "U+16B31", "U+16B32", "U+16B33", "U+16B34", "U+16B35",
    "U+16B36", "U+16B40", "U+16B41", "U+16B42", "U+16B43", "U+16F4F",
    "U+16F8F", "U+16F90", "U+16F91", "U+16F92", "U+16F93", "U+16F94",
    "U+16F95", "U+16F96", "U+16F97", "U+16F98", "U+16F99", "U+16F9A",
    "U+16F9B", "U+16F9C", "U+16F9D", "U+16F9E", "U+16F9F", "U+16FE0",
    "U+16FE1", "U+16FE3", "U+16FE4", "U+1AFF0", "U+1AFF1", "U+1AFF2",
    "U+1AFF3", "U+1AFF5", "U+1AFF6", "U+1AFF7", "U+1AFF8", "U+1AFF9",
    "U+1AFFA", "U+1AFFB", "U+1AFFD", "U+1AFFE", "U+1BC9D", "U+1BC9E",
    "U+1BCA0", "U+1BCA1", "U+1BCA2", "U+1BCA3", "U+1CF00", "U+1CF01",
    "U+1CF02", "U+1CF03", "U+1CF04", "U+1CF05", "U+1CF06", "U+1CF07",
    "U+1CF08", "U+1CF09", "U+1CF0A", "U+1CF0B", "U+1CF0C", "U+1CF0D",
    "U+1CF0E", "U+1CF0F", "U+1CF10", "U+1CF11", "U+1CF12", "U+1CF13",
    "U+1CF14", "U+1CF15", "U+1CF16", "U+1CF17", "U+1CF18", "U+1CF19",
    "U+1CF1A", "U+1CF1B", "U+1CF1C", "U+1CF1D", "U+1CF1E", "U+1CF1F",
    "U+1CF20", "U+1CF21", "U+1CF22", "U+1CF23", "U+1CF24", "U+1CF25",
    "U+1CF26", "U+1CF27", "U+1CF28", "U+1CF29", "U+1CF2A", "U+1CF2B",
    "U+1CF2C", "U+1CF2D", "U+1CF30", "U+1CF31", "U+1CF32", "U+1CF33",
    "U+1CF34", "U+1CF35", "U+1CF36", "U+1CF37", "U+1CF38", "U+1CF39",
    "U+1CF3A", "U+1CF3B", "U+1CF3C", "U+1CF3D", "U+1CF3E", "U+1CF3F",
    "U+1CF40", "U+1CF41", "U+1CF42", "U+1CF43", "U+1CF44", "U+1CF45",
    "U+1CF46", "U+1D167", "U+1D168", "U+1D169", "U+1D173", "U+1D174",
    "U+1D175", "U+1D176", "U+1D177", "U+1D178", "U+1D179", "U+1D17A",
    "U+1D17B", "U+1D17C", "U+1D17D", "U+1D17E", "U+1D17F", "U+1D180",
    "U+1D181", "U+1D182", "U+1D185", "U+1D186", "U+1D187", "U+1D188",
    "U+1D189", "U+1D18A", "U+1D18B", "U+1D1AA", "U+1D1AB", "U+1D1AC",
    "U+1D1AD", "U+1D242", "U+1D243", "U+1D244", "U+1DA00", "U+1DA01",
    "U+1DA02", "U+1DA03", "U+1DA04", "U+1DA05", "U+1DA06", "U+1DA07",
    "U+1DA08", "U+1DA09", "U+1DA0A", "U+1DA0B", "U+1DA0C", "U+1DA0D",
    "U+1DA0E", "U+1DA0F", "U+1DA10", "U+1DA11", "U+1DA12", "U+1DA13",
    "U+1DA14", "U+1DA15", "U+1DA16", "U+1DA17", "U+1DA18", "U+1DA19",
    "U+1DA1A", "U+1DA1B", "U+1DA1C", "U+1DA1D", "U+1DA1E", "U+1DA1F",
    "U+1DA20", "U+1DA21", "U+1DA22", "U+1DA23", "U+1DA24", "U+1DA25",
    "U+1DA26", "U+1DA27", "U+1DA28", "U+1DA29", "U+1DA2A", "U+1DA2B",
    "U+1DA2C", "U+1DA2D", "U+1DA2E", "U+1DA2F", "U+1DA30", "U+1DA31",
    "U+1DA32", "U+1DA33", "U+1DA34", "U+1DA35", "U+1DA36", "U+1DA3B",
    "U+1DA3C", "U+1DA3D", "U+1DA3E", "U+1DA3F", "U+1DA40", "U+1DA41",
    "U+1DA42", "U+1DA43", "U+1DA44", "U+1DA45", "U+1DA46", "U+1DA47",
    "U+1DA48", "U+1DA49", "U+1DA4A", "U+1DA4B", "U+1DA4C", "U+1DA4D",
    "U+1DA4E", "U+1DA4F", "U+1DA50", "U+1DA51", "U+1DA52", "U+1DA53",
    "U+1DA54", "U+1DA55", "U+1DA56", "U+1DA57", "U+1DA58", "U+1DA59",
    "U+1DA5A", "U+1DA5B", "U+1DA5C", "U+1DA5D", "U+1DA5E", "U+1DA5F",
    "U+1DA60", "U+1DA61", "U+1DA62", "U+1DA63", "U+1DA64", "U+1DA65",
    "U+1DA66", "U+1DA67", "U+1DA68", "U+1DA69", "U+1DA6A", "U+1DA6B",
    "U+1DA6C", "U+1DA75", "U+1DA84", "U+1DA9B", "U+1DA9C", "U+1DA9D",
    "U+1DA9E", "U+1DA9F", "U+1DAA1", "U+1DAA2", "U+1DAA3", "U+1DAA4",
    "U+1DAA5", "U+1DAA6", "U+1DAA7", "U+1DAA8", "U+1DAA9", "U+1DAAA",
    "U+1DAAB", "U+1DAAC", "U+1DAAD", "U+1DAAE", "U+1DAAF", "U+1E000",
    "U+1E001", "U+1E002", "U+1E003", "U+1E004", "U+1E005", "U+1E006",
    "U+1E008", "U+1E009", "U+1E00A", "U+1E00B", "U+1E00C", "U+1E00D",
    "U+1E00E", "U+1E00F", "U+1E010", "U+1E011", "U+1E012", "U+1E013",
    "U+1E014", "U+1E015", "U+1E016", "U+1E017", "U+1E018", "U+1E01B",
    "U+1E01C", "U+1E01D", "U+1E01E", "U+1E01F", "U+1E020", "U+1E021",
    "U+1E023", "U+1E024", "U+1E026", "U+1E027", "U+1E028", "U+1E029",
    "U+1E02A", "U+1E130", "U+1E131", "U+1E132", "U+1E133", "U+1E134",
    "U+1E135", "U+1E136", "U+1E137", "U+1E138", "U+1E139", "U+1E13A",
    "U+1E13B", "U+1E13C", "U+1E13D", "U+1E2AE", "U+1E2EC", "U+1E2ED",
    "U+1E2EE", "U+1E2EF", "U+1E8D0", "U+1E8D1", "U+1E8D2", "U+1E8D3",
    "U+1E8D4", "U+1E8D5", "U+1E8D6", "U+1E944", "U+1E945", "U+1E946",
    "U+1E947", "U+1E948", "U+1E949", "U+1E94A", "U+1E94B", "U+1F3FB",
    "U+1F3FC", "U+1F3FD", "U+1F3FE", "U+1F3FF", "U+E0001", "U+E0020",
    "U+E0021", "U+E0022", "U+E0023", "U+E0024", "U+E0025", "U+E0026",
    "U+E0027", "U+E0028", "U+E0029", "U+E002A", "U+E002B", "U+E002C",
    "U+E002D", "U+E002E", "U+E002F", "U+E0030", "U+E0031", "U+E0032",
    "U+E0033", "U+E0034", "U+E0035", "U+E0036", "U+E0037", "U+E0038",
    "U+E0039", "U+E003A", "U+E003B", "U+E003C", "U+E003D", "U+E003E",
    "U+E003F", "U+E0040", "U+E0041", "U+E0042", "U+E0043", "U+E0044",
    "U+E0045", "U+E0046", "U+E0047", "U+E0048", "U+E0049", "U+E004A",
    "U+E004B", "U+E004C", "U+E004D", "U+E004E", "U+E004F", "U+E0050",
    "U+E0051", "U+E0052", "U+E0053", "U+E0054", "U+E0055", "U+E0056",
    "U+E0057", "U+E0058", "U+E0059", "U+E005A", "U+E005B", "U+E005C",
    "U+E005D", "U+E005E", "U+E005F", "U+E0060", "U+E0061", "U+E0062",
    "U+E0063", "U+E0064", "U+E0065", "U+E0066", "U+E0067", "U+E0068",
    "U+E0069", "U+E006A", "U+E006B", "U+E006C", "U+E006D", "U+E006E",
    "U+E006F", "U+E0070", "U+E0071", "U+E0072", "U+E0073", "U+E0074",
    "U+E0075", "U+E0076", "U+E0077", "U+E0078", "U+E0079", "U+E007A",
    "U+E007B", "U+E007C", "U+E007D", "U+E007E", "U+E007F", "U+E0100",
    "U+E0101", "U+E0102", "U+E0103", "U+E0104", "U+E0105", "U+E0106",
    "U+E0107", "U+E0108", "U+E0109", "U+E010A", "U+E010B", "U+E010C",
    "U+E010D", "U+E010E", "U+E010F", "U+E0110", "U+E0111", "U+E0112",
    "U+E0113", "U+E0114", "U+E0115", "U+E0116", "U+E0117", "U+E0118",
    "U+E0119", "U+E011A", "U+E011B", "U+E011C", "U+E011D", "U+E011E",
    "U+E011F", "U+E0120", "U+E0121", "U+E0122", "U+E0123", "U+E0124",
    "U+E0125", "U+E0126", "U+E0127", "U+E0128", "U+E0129", "U+E012A",
    "U+E012B", "U+E012C", "U+E012D", "U+E012E", "U+E012F", "U+E0130",
    "U+E0131", "U+E0132", "U+E0133", "U+E0134", "U+E0135", "U+E0136",
    "U+E0137", "U+E0138", "U+E0139", "U+E013A", "U+E013B", "U+E013C",
    "U+E013D", "U+E013E", "U+E013F", "U+E0140", "U+E0141", "U+E0142",
    "U+E0143", "U+E0144", "U+E0145", "U+E0146", "U+E0147", "U+E0148",
    "U+E0149", "U+E014A", "U+E014B", "U+E014C", "U+E014D", "U+E014E",
    "U+E014F", "U+E0150", "U+E0151", "U+E0152", "U+E0153", "U+E0154",
    "U+E0155", "U+E0156", "U+E0157", "U+E0158", "U+E0159", "U+E015A",
    "U+E015B", "U+E015C", "U+E015D", "U+E015E", "U+E015F", "U+E0160",
    "U+E0161", "U+E0162", "U+E0163", "U+E0164", "U+E0165", "U+E0166",
    "U+E0167", "U+E0168", "U+E0169", "U+E016A", "U+E016B", "U+E016C",
    "U+E016D", "U+E016E", "U+E016F", "U+E0170", "U+E0171", "U+E0172",
    "U+E0173", "U+E0174", "U+E0175", "U+E0176", "U+E0177", "U+E0178",
    "U+E0179", "U+E017A", "U+E017B", "U+E017C", "U+E017D", "U+E017E",
    "U+E017F", "U+E0180", "U+E0181", "U+E0182", "U+E0183", "U+E0184",
    "U+E0185", "U+E0186", "U+E0187", "U+E0188", "U+E0189", "U+E018A",
    "U+E018B", "U+E018C", "U+E018D", "U+E018E", "U+E018F", "U+E0190",
    "U+E0191", "U+E0192", "U+E0193", "U+E0194", "U+E0195", "U+E0196",
    "U+E0197", "U+E0198", "U+E0199", "U+E019A", "U+E019B", "U+E019C",
    "U+E019D", "U+E019E", "U+E019F", "U+E01A0", "U+E01A1", "U+E01A2",
    "U+E01A3", "U+E01A4", "U+E01A5", "U+E01A6", "U+E01A7", "U+E01A8",
    "U+E01A9", "U+E01AA", "U+E01AB", "U+E01AC", "U+E01AD", "U+E01AE",
    "U+E01AF", "U+E01B0", "U+E01B1", "U+E01B2", "U+E01B3", "U+E01B4",
    "U+E01B5", "U+E01B6", "U+E01B7", "U+E01B8", "U+E01B9", "U+E01BA",
    "U+E01BB", "U+E01BC", "U+E01BD", "U+E01BE", "U+E01BF", "U+E01C0",
    "U+E01C1", "U+E01C2", "U+E01C3", "U+E01C4", "U+E01C5", "U+E01C6",
    "U+E01C7", "U+E01C8", "U+E01C9", "U+E01CA", "U+E01CB", "U+E01CC",
    "U+E01CD", "U+E01CE", "U+E01CF", "U+E01D0", "U+E01D1", "U+E01D2",
    "U+E01D3", "U+E01D4", "U+E01D5", "U+E01D6", "U+E01D7", "U+E01D8",
    "U+E01D9", "U+E01DA", "U+E01DB", "U+E01DC", "U+E01DD", "U+E01DE",
    "U+E01DF", "U+E01E0", "U+E01E1", "U+E01E2", "U+E01E3", "U+E01E4",
    "U+E01E5", "U+E01E6", "U+E01E7", "U+E01E8", "U+E01E9", "U+E01EA",
    "U+E01EB", "U+E01EC", "U+E01ED", "U+E01EE", "U+E01EF" }

\* the cased characters that are not skipped
CASED ==
  { "A", "B", "C", "D", "E", "F", "G", "H", "I", "J", "K", "L", "M", "N", "O",
    "P", "Q", "R", "S", "T", "U", "V", "W", "X", "Y", "Z", "a", "b", "c", "d",
    "e", "f", "g", "h", "i", "j", "k", "l", "m", "n", "o", "p", "q", "r", "s",
    "t", "u", "v", "w", "x", "y", "z", "ª", "µ", "º", "À", "Á", "Â", "Ã", "Ä",
    "Å", "Æ", "Ç", "È", "É", "Ê", "Ë", "Ì", "Í", "Î", "Ï", "Ð", "Ñ", "Ò", "Ó",
    "Ô", "Õ", "Ö", "Ø", "Ù", "Ú", "Û", "Ü", "Ý", "Þ", "ß", "à", "á", "â", "ã",
    "ä", "å", "æ", "ç", "è", "é", "ê", "ë", "ì", "í", "î", "ï", "ð", "ñ", "ò",
    "ó", "ô", "õ", "ö", "ø", "ù", "ú", "û", "ü", "ý", "þ", "ÿ", "U+0100",
    "U+0101", "U+0102", "U+0103", "U+0104", "U+0105", "U+0106", "U+0107",
    "U+0108", "U+0109", "U+010A", "U+010B", "U+010C", "U+010D", "U+010E",
    "U+010F", "U+0110", "U+0111", "U+0112", "U+0113", "U+0114", "U+0115",
    "U+0116", "U+0117", "U+0118", "U+0119", "U+011A", "U+011B", "U+011C",
    "U+011D", "U+011E", "U+011F", "U+0120", "U+0121", "U+0122", "U+0123",
    "U+0124", "U+0125", "U+0126", "U+0127", "U+0128", "U+0129", "U+012A",
    "U+012B", "U+012C", "U+012D", "U+012E", "U+012F", "U+0130", "U+0131",
    "U+0132", "U+0133", "U+0134", "U+0135", "U+0136", "U+0137", "U+0138",
    "U+0139", "U+013A", "U+013B", "U+013C", "U+013D", "U+013E", "U+013F",
    "U+0140", "U+0141", "U+0142", "U+0143", "U+0144", "U+0145", "U+0146",
    "U+0147", "U+0148", "U+0149", "U+014A", "U+014B", "U+014C", "U+014D",
    "U+014E", "U+014F", "U+0150", "U+0151", "U+0152", "U+0153", "U+0154",
    "U+0155", "U+0156", "U+0157", "U+0158", "U+0159", "U+015A", "U+015B",
    "U+015C", "U+015D", "U+015E", "U+015F", "U+0160", "U+0161", "U+0162",
    "U+0163", "U+0164", "U+0165", "U+0166", "U+0167", "U+0168", "U+0169",
    "U+016A", "U+016B", "U+016C", "U+016D", "U+016E", "U+016F", "U+0170",
    "U+0171", "U+0172", "U+0173", "U+0174", "U+0175", "U+0176", "U+0177",
    "U+0178", "U+0179", "U+017A", "U+017B", "U+017C", "U+017D", "U+017E",
    "U+017F", "ƀ", "Ɓ", "Ƃ", "ƃ", "Ƅ", "ƅ", "Ɔ", "Ƈ", "ƈ", "Ɖ", "Ɗ", "Ƌ", "ƌ",
    "ƍ", "Ǝ", "Ə", "Ɛ", "Ƒ", "ƒ", "Ɠ", "Ɣ", "ƕ", "Ɩ", "Ɨ", "Ƙ", "ƙ", "ƚ", "ƛ",
    "Ɯ", "Ɲ", "ƞ", "Ɵ", "Ơ", "ơ", "Ƣ", "ƣ", "Ƥ", "ƥ", "Ʀ", "Ƨ", "ƨ", "Ʃ", "ƪ",
    "ƫ", "Ƭ", "ƭ", "Ʈ", "Ư", "ư", "Ʊ", "Ʋ", "Ƴ", "ƴ", "Ƶ", "ƶ", "Ʒ", "Ƹ", "ƹ",
    "ƺ", "Ƽ", "ƽ", "ƾ", "ƿ", "Ǆ", "ǅ", "ǆ", "Ǉ", "ǈ", "ǉ", "Ǌ", "ǋ", "ǌ", "Ǎ",
    "ǎ", "Ǐ", "ǐ", "Ǒ", "ǒ", "Ǔ", "ǔ", "Ǖ", "ǖ", "Ǘ", "ǘ", "Ǚ", "ǚ", "Ǜ", "ǜ",
    "ǝ", "Ǟ", "ǟ", "Ǡ", "ǡ", "Ǣ", "ǣ", "Ǥ", "ǥ", "Ǧ", "ǧ", "Ǩ", "ǩ", "Ǫ", "ǫ",
    "Ǭ", "ǭ", "Ǯ", "ǯ", "ǰ", "Ǳ", "ǲ", "ǳ", "Ǵ", "ǵ", "Ƕ", "Ƿ", "Ǹ", "ǹ", "Ǻ",
    "ǻ", "Ǽ", "ǽ", "Ǿ", "ǿ", "U+0200", "U+0201", "U+0202", "U+0203", "U+0204",
    "U+0205", "U+0206", "U+0207", "U+0208", "U+0209", "U+020A", "U+020B",
    "U+020C", "U+020D", "U+020E", "U+020F", "U+0210", "U+0211", "U+0212",
    "U+0213", "U+0214", "U+0215", "U+0216", "U+0217", "U+0218", "U+0219",
    "U+021A", "U+021B", "U+021C", "U+021D", "U+021E", "U+021F", "U+0220",
    "U+0221", "U+0222", "U+0223", "U+0224", "U+0225", "U+0226", "U+0227",
    "U+0228", "U+0229", "U+022A", "U+022B", "U+022C", "U+022D", "U+022E",
    "U+022F", "U+0230", "U+0231", "U+0232", "U+0233", "U+0234", "U+0235",
    "U+0236", "U+0237", "U+0238", "U+0239", "U+023A", "U+023B", "U+023C",
    "U+023D", "U+023E", "U+023F", "U+0240", "U+0241", "U+0242", "U+0243",
    "U+0244", "U+0245", "U+0246", "U+0247", "U+0248", "U+0249", "U+024A",
    "U+024B", "U+024C", "U+024D", "U+024E", "U+024F", "U+0250", "U+0251",
    "U+0252", "U+0253", "U+0254", "U+0255", "U+0256", "U+0257", "U+0258",
    "U+0259", "U+025A", "U+025B", "U+025C", "U+025D", "U+025E", "U+025F",
    "U+0260", "U+0261", "U+0262", "U+0263", "U+0264", "U+0265", "U+0266",
    "U+0267", "U+0268", "U+0269", "U+026A", "U+026B", "U+026C", "U+026D",
    "U+026E", "U+026F", "U+0270", "U+0271", "U+0272", "U+0273", "U+0274",
    "U+0275", "U+0276", "U+0277", "U+0278", "U+0279", "U+027A", "U+027B",
    "U+027C", "U+027D", "U+027E", "U+027F", "ʀ", "ʁ", "ʂ", "ʃ", "ʄ", "ʅ", "ʆ",
    "ʇ", "ʈ", "ʉ", "ʊ", "ʋ", "ʌ", "ʍ", "ʎ", "ʏ", "ʐ", "ʑ", "ʒ", "ʓ", "ʕ", "ʖ",
    "ʗ", "ʘ", "ʙ", "ʚ", "ʛ", "ʜ", "ʝ", "ʞ", "ʟ", "ʠ", "ʡ", "ʢ", "ʣ", "ʤ", "ʥ",
    "ʦ", "ʧ", "ʨ", "ʩ", "ʪ", "ʫ", "ʬ", "ʭ", "ʮ", "ʯ", "U+0370", "U+0371",
    "U+0372", "U+0373", "U+0376", "U+0377", "U+037B", "U+037C", "U+037D",
    "U+037F", "Ά", "Έ", "Ή", "Ί", "Ό", "Ύ", "Ώ", "ΐ", "Α", "Β", "Γ", "Δ", "Ε",
    "Ζ", "Η", "Θ", "Ι", "Κ", "Λ", "Μ", "Ν", "Ξ", "Ο", "Π", "Ρ", "Σ", "Τ", "Υ",
    "Φ", "Χ", "Ψ", "Ω", "Ϊ", "Ϋ", "ά", "έ", "ή", "ί", "ΰ", "α", "β", "γ", "δ",
    "ε", "ζ", "η", "θ", "ι", "κ", "λ", "μ", "ν", "ξ", "ο", "π", "ρ", "ς", "σ",
    "τ", "υ", "φ", "χ", "ψ", "ω", "ϊ", "ϋ", "ό", "ύ", "ώ", "Ϗ", "ϐ", "ϑ", "ϒ",
    "ϓ", "ϔ", "ϕ", "ϖ", "ϗ", "Ϙ", "ϙ", "Ϛ", "ϛ", "Ϝ", "ϝ", "Ϟ", "ϟ", "Ϡ", "ϡ",
    "Ϣ", "ϣ", "Ϥ", "ϥ", "Ϧ", "ϧ", "Ϩ", "ϩ", "Ϫ", "ϫ", "Ϭ", "ϭ", "Ϯ", "ϯ", "ϰ",
    "ϱ", "ϲ", "ϳ", "ϴ", "ϵ", "Ϸ", "ϸ", "Ϲ", "Ϻ", "ϻ", "ϼ", "Ͻ", "Ͼ", "Ͽ",
    "U+0400", "U+0401", "U+0402", "U+0403", "U+0404", "U+0405", "U+0406",
    "U+0407", "U+0408", "U+0409", "U+040A", "U+040B", "U+040C", "U+040D",
    "U+040E", "U+040F", "U+0410", "U+0411", "U+0412", "U+0413", "U+0414",
    "U+0415", "U+0416", "U+0417", "U+0418", "U+0419", "U+041A", "U+041B",
    "U+041C", "U+041D", "U+041E", "U+041F", "U+0420", "U+0421", "U+0422",
    "U+0423", "U+0424", "U+0425", "U+0426", "U+0427", "U+0428", "U+0429",
    "U+042A", "U+042B", "U+042C", "U+042D", "U+042E", "U+042F", "U+0430",
    "U+0431", "U+0432", "U+0433", "U+0434", "U+0435", "U+0436", "U+0437",
    "U+0438", "U+0439", "U+043A", "U+043B", "U+043C", "U+043D", "U+043E",
    "U+043F", "U+0440", "U+0441", "U+0442", "U+0443", "U+0444", "U+0445",
    "U+0446", "U+0447", "U+0448", "U+0449", "U+044A", "U+044B", "U+044C",
    "U+044D", "U+044E", "U+044F", "U+0450", "U+0451", "U+0452", "U+0453",
    "U+0454", "U+0455", "U+0456", "U+0457", "U+0458", "U+0459", "U+045A",
    "U+045B", "U+045C", "U+045D", "U+045E", "U+045F", "U+0460", "U+0461",
    "U+0462", "U+0463", "U+0464", "U+0465", "U+0466", "U+0467", "U+0468",
    "U+0469", "U+046A", "U+046B", "U+046C", "U+046D", "U+046E", "U+046F",
    "U+0470", "U+0471", "U+0472", "U+0473", "U+0474", "U+0475", "U+0476",
    "U+0477", "U+0478", "U+0479", "U+047A", "U+047B", "U+047C", "U+047D",
    "U+047E", "U+047F", "Ҁ", "ҁ", "Ҋ", "ҋ", "Ҍ", "ҍ", "Ҏ", "ҏ", "Ґ", "ґ", "Ғ",
    "ғ", "Ҕ", "ҕ", "Җ", "җ", "Ҙ", "ҙ", "Қ", "қ", "Ҝ", "ҝ", "Ҟ", "ҟ", "Ҡ", "ҡ",
    "Ң", "ң", "Ҥ", "ҥ", "Ҧ", "ҧ", "Ҩ", "ҩ", "Ҫ", "ҫ", "Ҭ", "ҭ", "Ү", "ү", "Ұ",
    "ұ", "Ҳ", "ҳ", "Ҵ", "ҵ", "Ҷ", "ҷ", "Ҹ", "ҹ", "Һ", "һ", "Ҽ", "ҽ", "Ҿ", "ҿ",
    "Ӏ", "Ӂ", "ӂ", "Ӄ", "ӄ", "Ӆ", "ӆ", "Ӈ", "ӈ", "Ӊ", "ӊ", "Ӌ", "ӌ", "Ӎ", "ӎ",
    "ӏ", "Ӑ", "ӑ", "Ӓ", "ӓ", "Ӕ", "ӕ", "Ӗ", "ӗ", "Ә", "ә", "Ӛ", "ӛ", "Ӝ", "ӝ",
    "Ӟ", "ӟ", "Ӡ", "ӡ", "Ӣ", "ӣ", "Ӥ", "ӥ", "Ӧ", "ӧ", "Ө", "ө", "Ӫ", "ӫ", "Ӭ",
    "ӭ", "Ӯ", "ӯ", "Ӱ", "ӱ", "Ӳ", "ӳ", "Ӵ", "ӵ", "Ӷ", "ӷ", "Ӹ", "ӹ", "Ӻ", "ӻ",
    "Ӽ", "ӽ", "Ӿ", "ӿ", "U+0500", "U+0501", "U+0502", "U+0503", "U+0504",
    "U+0505", "U+0506", "U+0507", "U+0508", "U+0509", "U+050A", "U+050B",
    "U+050C", "U+050D", "U+050E", "U+050F", "U+0510", "U+0511", "U+0512",
    "U+0513", "U+0514", "U+0515", "U+0516", "U+0517", "U+0518", "U+0519",
    "U+051A", "U+051B", "U+051C", "U+051D", "U+051E", "U+051F", "U+0520",
    "U+0521", "U+0522", "U+0523", "U+0524", "U+0525", "U+0526", "U+0527",
    "U+0528", "U+0529", "U+052A", "U+052B", "U+052C", "U+052D", "U+052E",
    "U+052F", "U+0531", "U+0532", "U+0533", "U+0534", "U+0535", "U+0536",
    "U+0537", "U+0538", "U+0539", "U+053A", "U+053B", "U+053C", "U+053D",
    "U+053E", "U+053F", "U+0540", "U+0541", "U+0542", "U+0543", "U+0544",
    "U+0545", "U+0546", "U+0547", "U+0548", "U+0549", "U+054A", "U+054B",
    "U+054C", "U+054D", "U+054E", "U+054F", "U+0550", "U+0551", "U+0552",
    "U+0553", "U+0554", "U+0555", "U+0556", "U+0560", "U+0561", "U+0562",
    "U+0563", "U+0564", "U+0565", "U+0566", "U+0567", "U+0568", "U+0569",
    "U+056A", "U+056B", "U+056C", "U+056D", "U+056E", "U+056F", "U+0570",
    "U+0571", "U+0572", "U+0573", "U+0574", "U+0575", "U+0576", "U+0577",
    "U+0578", "U+0579", "U+057A", "U+057B", "U+057C", "U+057D", "U+057E",
    "U+057F", "ր", "ց", "ւ", "փ", "ք", "օ", "ֆ", "և", "ֈ", "Ⴀ", "Ⴁ", "Ⴂ", "Ⴃ",
    "Ⴄ", "Ⴅ", "Ⴆ", "Ⴇ", "Ⴈ", "Ⴉ", "Ⴊ", "Ⴋ", "Ⴌ", "Ⴍ", "Ⴎ", "Ⴏ", "Ⴐ", "Ⴑ", "Ⴒ",
    "Ⴓ", "Ⴔ", "Ⴕ", "Ⴖ", "Ⴗ", "Ⴘ", "Ⴙ", "Ⴚ", "Ⴛ", "Ⴜ", "Ⴝ", "Ⴞ", "Ⴟ", "Ⴠ", "Ⴡ",
    "Ⴢ", "Ⴣ", "Ⴤ", "Ⴥ", "Ⴧ", "Ⴭ", "ა", "ბ", "გ", "დ", "ე", "ვ", "ზ", "თ", "ი",
    "კ", "ლ", "მ", "ნ", "ო", "პ", "ჟ", "რ", "ს", "ტ", "უ", "ფ", "ქ", "ღ", "ყ",
    "შ", "ჩ", "ც", "ძ", "წ", "ჭ", "ხ", "ჯ", "ჰ", "ჱ", "ჲ", "ჳ", "ჴ", "ჵ", "ჶ",
    "ჷ", "ჸ", "ჹ", "ჺ", "ჽ", "ჾ", "ჿ", "Ꭰ", "Ꭱ", "Ꭲ", "Ꭳ", "Ꭴ", "Ꭵ", "Ꭶ", "Ꭷ",
    "Ꭸ", "Ꭹ", "Ꭺ", "Ꭻ", "Ꭼ", "Ꭽ", "Ꭾ", "Ꭿ", "Ꮀ", "Ꮁ", "Ꮂ", "Ꮃ", "Ꮄ", "Ꮅ", "Ꮆ",
    "Ꮇ", "Ꮈ", "Ꮉ", "Ꮊ", "Ꮋ", "Ꮌ", "Ꮍ", "Ꮎ", "Ꮏ", "Ꮐ", "Ꮑ", "Ꮒ", "Ꮓ", "Ꮔ", "Ꮕ",
    "Ꮖ", "Ꮗ", "Ꮘ", "Ꮙ", "Ꮚ", "Ꮛ", "Ꮜ", "Ꮝ", "Ꮞ", "Ꮟ", "Ꮠ", "Ꮡ", "Ꮢ", "Ꮣ", "Ꮤ",
    "Ꮥ", "Ꮦ", "Ꮧ", "Ꮨ", "Ꮩ", "Ꮪ", "Ꮫ", "Ꮬ", "Ꮭ", "Ꮮ", "Ꮯ", "Ꮰ", "Ꮱ", "Ꮲ", "Ꮳ",
    "Ꮴ", "Ꮵ", "Ꮶ", "Ꮷ", "Ꮸ", "Ꮹ", "Ꮺ", "Ꮻ", "Ꮼ", "Ꮽ", "Ꮾ", "Ꮿ", "Ᏸ", "Ᏹ", "Ᏺ",
    "Ᏻ", "Ᏼ", "Ᏽ", "ᏸ", "ᏹ", "ᏺ", "ᏻ", "ᏼ", "ᏽ", "ᲀ", "ᲁ", "ᲂ", "ᲃ", "ᲄ", "ᲅ",
    "ᲆ", "ᲇ", "ᲈ", "Ა", "Ბ", "Გ", "Დ", "Ე", "Ვ", "Ზ", "Თ", "Ი", "Კ", "Ლ", "Მ",
    "Ნ", "Ო", "Პ", "Ჟ", "Რ", "Ს", "Ტ", "Უ", "Ფ", "Ქ", "Ღ", "Ყ", "Შ", "Ჩ", "Ც",
    "Ძ", "Წ", "Ჭ", "Ხ", "Ჯ", "Ჰ", "Ჱ", "Ჲ", "Ჳ", "Ჴ", "Ჵ", "Ჶ", "Ჷ", "Ჸ", "Ჹ",
    "Ჺ", "Ჽ", "Ჾ", "Ჿ", "U+1D00", "U+1D01", "U+1D02", "U+1D03", "U+1D04",
    "U+1D05", "U+1D06", "U+1D07", "U+1D08", "U+1D09", "U+1D0A", "U+1D0B",
    "U+1D0C", "U+1D0D", "U+1D0E", "U+1D0F", "U+1D10", "U+1D11", "U+1D12",
    "U+1D13", "U+1D14", "U+1D15", "U+1D16", "U+1D17", "U+1D18", "U+1D19",
    "U+1D1A", "U+1D1B", "U+1D1C", "U+1D1D", "U+1D1E", "U+1D1F", "U+1D20",
    "U+1D21", "U+1D22", "U+1D23", "U+1D24", "U+1D25", "U+1D26", "U+1D27",
    "U+1D28", "U+1D29", "U+1D2A", "U+1D2B", "U+1D6B", "U+1D6C", "U+1D6D",
    "U+1D6E", "U+1D6F", "U+1D70", "U+1D71", "U+1D72", "U+1D73", "U+1D74",
    "U+1D75", "U+1D76", "U+1D77", "U+1D79", "U+1D7A", "U+1D7B", "U+1D7C",
    "U+1D7D", "U+1D7E", "U+1D7F", "ᶀ", "ᶁ", "ᶂ", "ᶃ", "ᶄ", "ᶅ", "ᶆ", "ᶇ", "ᶈ",
    "ᶉ", "ᶊ", "ᶋ", "ᶌ", "ᶍ", "ᶎ", "ᶏ", "ᶐ", "ᶑ", "ᶒ", "ᶓ", "ᶔ", "ᶕ", "ᶖ", "ᶗ",
    "ᶘ", "ᶙ", "ᶚ", "U+1E00", "U+1E01", "U+1E02", "U+1E03", "U+1E04", "U+1E05",
    "U+1E06", "U+1E07", "U+1E08", "U+1E09", "U+1E0A", "U+1E0B", "U+1E0C",
    "U+1E0D", "U+1E0E", "U+1E0F", "U+1E10", "U+1E11", "U+1E12", "U+1E13",
    "U+1E14", "U+1E15", "U+1E16", "U+1E17", "U+1E18", "U+1E19", "U+1E1A",
    "U+1E1B", "U+1E1C", "U+1E1D", "U+1E1E", "U+1E1F", "U+1E20", "U+1E21",
    "U+1E22", "U+1E23", "U+1E24", "U+1E25", "U+1E26", "U+1E27", "U+1E28",
    "U+1E29", "U+1E2A", "U+1E2B", "U+1E2C", "U+1E2D", "U+1E2E", "U+1E2F",
    "U+1E30", "U+1E31", "U+1E32", "U+1E33", "U+1E34", "U+1E35", "U+1E36",
    "U+1E37", "U+1E38", "U+1E39", "U+1E3A", "U+1E3B", "U+1E3C", "U+1E3D",
    "U+1E3E", "U+1E3F", "U+1E40", "U+1E41", "U+1E42", "U+1E43", "U+1E44",
    "U+1E45", "U+1E46", "U+1E47", "U+1E48", "U+1E49", "U+1E4A", "U+1E4B",
    "U+1E4C", "U+1E4D", "U+1E4E", "U+1E4F", "U+1E50", "U+1E51", "U+1E52",
    "U+1E53", "U+1E54", "U+1E55", "U+1E56", "U+1E57", "U+1E58", "U+1E59",
    "U+1E5A", "U+1E5B", "U+1E5C", "U+1E5D", "U+1E5E", "U+1E5F", "U+1E60",
    "U+1E61", "U+1E62", "U+1E63", "U+1E64", "U+1E65", "U+1E66", "U+1E67",
    "U+1E68", "U+1E69", "U+1E6A", "U+1E6B", "U+1E6C", "U+1E6D", "U+1E6E",
    "U+1E6F", "U+1E70", "U+1E71", "U+1E72", "U+1E73", "U+1E74", "U+1E75",
    "U+1E76", "U+1E77", "U+1E78", "U+1E79", "U+1E7A", "U+1E7B", "U+1E7C",
    "U+1E7D", "U+1E7E", "U+1E7F", "Ẁ", "ẁ", "Ẃ", "ẃ", "Ẅ", "ẅ", "Ẇ", "ẇ", "Ẉ",
    "ẉ", "Ẋ", "ẋ", "Ẍ", "ẍ", "Ẏ", "ẏ", "Ẑ", "ẑ", "Ẓ", "ẓ", "Ẕ", "ẕ", "ẖ", "ẗ",
    "ẘ", "ẙ", "ẚ", "ẛ", "ẜ", "ẝ", "ẞ", "ẟ", "Ạ", "ạ", "Ả", "ả", "Ấ", "ấ", "Ầ",
    "ầ", "Ẩ", "ẩ", "Ẫ", "ẫ", "Ậ", "ậ", "Ắ", "ắ", "Ằ", "ằ", "Ẳ", "ẳ", "Ẵ", "ẵ",
    "Ặ", "ặ", "Ẹ", "ẹ", "Ẻ", "ẻ", "Ẽ", "ẽ", "Ế", "ế", "Ề", "ề", "Ể", "ể", "Ễ",
    "ễ", "Ệ", "ệ", "Ỉ", "ỉ", "Ị", "ị", "Ọ", "ọ", "Ỏ", "ỏ", "Ố", "ố", "Ồ", "ồ",
    "Ổ", "ổ", "Ỗ", "ỗ", "Ộ", "ộ", "Ớ", "ớ", "Ờ", "ờ", "Ở", "ở", "Ỡ", "ỡ", "Ợ",
    "ợ", "Ụ", "ụ", "Ủ", "ủ", "Ứ", "ứ", "Ừ", "ừ", "Ử", "ử", "Ữ", "ữ", "Ự", "ự",
    "Ỳ", "ỳ", "Ỵ", "ỵ", "Ỷ", "ỷ", "Ỹ", "ỹ", "Ỻ", "ỻ", "Ỽ", "ỽ", "Ỿ", "ỿ",
    "U+1F00", "U+1F01", "U+1F02", "U+1F03", "U+1F04", "U+1F05", "U+1F06",
    "U+1F07", "U+1F08", "U+1F09", "U+1F0A", "U+1F0B", "U+1F0C", "U+1F0D",
    "U+1F0E", "U+1F0F", "U+1F10", "U+1F11", "U+1F12", "U+1F13", "U+1F14",
    "U+1F15", "U+1F18", "U+1F19", "U+1F1A", "U+1F1B", "U+1F1C", "U+1F1D",
    "U+1F20", "U+1F21", "U+1F22", "U+1F23", "U+1F24", "U+1F25", "U+1F26",
    "U+1F27", "U+1F28", "U+1F29", "U+1F2A", "U+1F2B", "U+1F2C", "U+1F2D",
    "U+1F2E", "U+1F2F", "U+1F30", "U+1F31", "U+1F32", "U+1F33", "U+1F34",
    "U+1F35", "U+1F36", "U+1F37", "U+1F38", "U+1F39", "U+1F3A", "U+1F3B",
    "U+1F3C", "U+1F3D", "U+1F3E", "U+1F3F", "U+1F40", "U+1F41", "U+1F42",
    "U+1F43", "U+1F44", "U+1F45", "U+1F48", "U+1F49", "U+1F4A", "U+1F4B",
    "U+1F4C", "U+1F4D", "U+1F50", "U+1F51", "U+1F52", "U+1F53", "U+1F54",
    "U+1F55", "U+1F56", "U+1F57", "U+1F59", "U+1F5B", "U+1F5D", "U+1F5F",
    "U+1F60", "U+1F61", "U+1F62", "U+1F63", "U+1F64", "U+1F65", "U+1F66",
    "U+1F67", "U+1F68", "U+1F69", "U+1F6A", "U+1F6B", "U+1F6C", "U+1F6D",
    "U+1F6E", "U+1F6F", "U+1F70", "U+1F71", "U+1F72", "U+1F73", "U+1F74",
    "U+1F75", "U+1F76", "U+1F77", "U+1F78", "U+1F79", "U+1F7A", "U+1F7B",
    "U+1F7C", "U+1F7D", "ᾀ", "ᾁ", "ᾂ", "ᾃ", "ᾄ", "ᾅ", "ᾆ", "ᾇ", "ᾈ", "ᾉ", "ᾊ",
    "ᾋ", "ᾌ", "ᾍ", "ᾎ", "ᾏ", "ᾐ", "ᾑ", "ᾒ", "ᾓ", "ᾔ", "ᾕ", "ᾖ", "ᾗ", "ᾘ", "ᾙ",
    "ᾚ", "ᾛ", "ᾜ", "ᾝ", "ᾞ", "ᾟ", "ᾠ", "ᾡ", "ᾢ", "ᾣ", "ᾤ", "ᾥ", "ᾦ", "ᾧ", "ᾨ",
    "ᾩ", "ᾪ", "ᾫ", "ᾬ", "ᾭ", "ᾮ", "ᾯ", "ᾰ", "ᾱ", "ᾲ", "ᾳ", "ᾴ", "ᾶ", "ᾷ", "Ᾰ",
    "Ᾱ", "Ὰ", "Ά", "ᾼ", "ι", "ῂ", "ῃ", "ῄ", "ῆ", "ῇ", "Ὲ", "Έ", "Ὴ", "Ή", "ῌ",
    "ῐ", "ῑ", "ῒ", "ΐ", "ῖ", "ῗ", "Ῐ", "Ῑ", "Ὶ", "Ί", "ῠ", "ῡ", "ῢ", "ΰ", "ῤ",
    "ῥ", "ῦ", "ῧ", "Ῠ", "Ῡ", "Ὺ", "Ύ", "Ῥ", "ῲ", "ῳ", "ῴ", "ῶ", "ῷ", "Ὸ", "Ό",
    "Ὼ", "Ώ", "ῼ", "U+2102", "U+2107", "U+210A", "U+210B", "U+210C", "U+210D",
    "U+210E", "U+210F", "U+2110", "U+2111", "U+2112", "U+2113", "U+2115",
    "U+2119", "U+211A", "U+211B", "U+211C", "U+211D", "U+2124", "U+2126",
    "U+2128", "U+212A", "U+212B", "U+212C", "U+212D", "U+212F", "U+2130",
    "U+2131", "U+2132", "U+2133", "U+2134", "U+2139", "U+213C", "U+213D",
    "U+213E", "U+213F", "U+2145", "U+2146", "U+2147", "U+2148", "U+2149",
    "U+214E", "U+2160", "U+2161", "U+2162", "U+2163", "U+2164", "U+2165",
    "U+2166", "U+2167", "U+2168", "U+2169", "U+216A", "U+216B", "U+216C",
    "U+216D", "U+216E", "U+216F", "U+2170", "U+2171", "U+2172", "U+2173",
    "U+2174", "U+2175", "U+2176", "U+2177", "U+2178", "U+2179", "U+217A",
    "U+217B", "U+217C", "U+217D", "U+217E", "U+217F", "Ↄ", "ↄ", "Ⓐ", "Ⓑ", "Ⓒ",
    "Ⓓ", "Ⓔ", "Ⓕ", "Ⓖ", "Ⓗ", "Ⓘ", "Ⓙ", "Ⓚ", "Ⓛ", "Ⓜ", "Ⓝ", "Ⓞ", "Ⓟ", "Ⓠ", "Ⓡ",
    "Ⓢ", "Ⓣ", "Ⓤ", "Ⓥ", "Ⓦ", "Ⓧ", "Ⓨ", "Ⓩ", "ⓐ", "ⓑ", "ⓒ", "ⓓ", "ⓔ", "ⓕ", "ⓖ",
    "ⓗ", "ⓘ", "ⓙ", "ⓚ", "ⓛ", "ⓜ", "ⓝ", "ⓞ", "ⓟ", "ⓠ", "ⓡ", "ⓢ", "ⓣ", "ⓤ", "ⓥ",
    "ⓦ", "ⓧ", "ⓨ", "ⓩ", "U+2C00", "U+2C01", "U+2C02", "U+2C03", "U+2C04",
    "U+2C05", "U+2C06", "U+2C07", "U+2C08", "U+2C09", "U+2C0A", "U+2C0B",
    "U+2C0C", "U+2C0D", "U+2C0E", "U+2C0F", "U+2C10", "U+2C11", "U+2C12",
    "U+2C13", "U+2C14", "U+2C15", "U+2C16", "U+2C17", "U+2C18", "U+2C19",
    "U+2C1A", "U+2C1B", "U+2C1C", "U+2C1D", "U+2C1E", "U+2C1F", "U+2C20",
    "U+2C21", "U+2C22", "U+2C23", "U+2C24", "U+2C25", "U+2C26", "U+2C27",
    "U+2C28", "U+2C29", "U+2C2A", "U+2C2B", "U+2C2C", "U+2C2D", "U+2C2E",
    "U+2C2F", "U+2C30", "U+2C31", "U+2C32", "U+2C33", "U+2C34", "U+2C35",
    "U+2C36", "U+2C37", "U+2C38", "U+2C39", "U+2C3A", "U+2C3B", "U+2C3C",
    "U+2C3D", "U+2C3E", "U+2C3F", "U+2C40", "U+2C41", "U+2C42", "U+2C43",
    "U+2C44", "U+2C45", "U+2C46", "U+2C47", "U+2C48", "U+2C49", "U+2C4A",
    "U+2C4B", "U+2C4C", "U+2C4D", "U+2C4E", "U+2C4F", "U+2C50", "U+2C51",
    "U+2C52", "U+2C53", "U+2C54", "U+2C55", "U+2C56", "U+2C57", "U+2C58",
    "U+2C59", "U+2C5A", "U+2C5B", "U+2C5C", "U+2C5D", "U+2C5E", "U+2C5F",
    "U+2C60", "U+2C61", "U+2C62", "U+2C63", "U+2C64", "U+2C65", "U+2C66",
    "U+2C67", "U+2C68", "U+2C69", "U+2C6A", "U+2C6B", "U+2C6C", "U+2C6D",
    "U+2C6E", "U+2C6F", "U+2C70", "U+2C71", "U+2C72", "U+2C73", "U+2C74",
    "U+2C75", "U+2C76", "U+2C77", "U+2C78", "U+2C79", "U+2C7A", "U+2C7B",
    "U+2C7E", "U+2C7F", "Ⲁ", "ⲁ", "Ⲃ", "ⲃ", "Ⲅ", "ⲅ", "Ⲇ", "ⲇ", "Ⲉ", "ⲉ", "Ⲋ",
    "ⲋ", "Ⲍ", "ⲍ", "Ⲏ", "ⲏ", "Ⲑ", "ⲑ", "Ⲓ", "ⲓ", "Ⲕ", "ⲕ", "Ⲗ", "ⲗ", "Ⲙ", "ⲙ",
    "Ⲛ", "ⲛ", "Ⲝ", "ⲝ", "Ⲟ", "ⲟ", "Ⲡ", "ⲡ", "Ⲣ", "ⲣ", "Ⲥ", "ⲥ", "Ⲧ", "ⲧ", "Ⲩ",
    "ⲩ", "Ⲫ", "ⲫ", "Ⲭ", "ⲭ", "Ⲯ", "ⲯ", "Ⲱ", "ⲱ", "Ⲳ", "ⲳ", "Ⲵ", "ⲵ", "Ⲷ", "ⲷ",
    "Ⲹ", "ⲹ", "Ⲻ", "ⲻ", "Ⲽ", "ⲽ", "Ⲿ", "ⲿ", "Ⳁ", "ⳁ", "Ⳃ", "ⳃ", "Ⳅ", "ⳅ", "Ⳇ",
    "ⳇ", "Ⳉ", "ⳉ", "Ⳋ", "ⳋ", "Ⳍ", "ⳍ", "Ⳏ", "ⳏ", "Ⳑ", "ⳑ", "Ⳓ", "ⳓ", "Ⳕ", "ⳕ",
    "Ⳗ", "ⳗ", "Ⳙ", "ⳙ", "Ⳛ", "ⳛ", "Ⳝ", "ⳝ", "Ⳟ", "ⳟ", "Ⳡ", "ⳡ", "Ⳣ", "ⳣ", "ⳤ",
    "Ⳬ", "ⳬ", "Ⳮ", "ⳮ", "Ⳳ", "ⳳ", "U+2D00", "U+2D01", "U+2D02", "U+2D03",
    "U+2D04", "U+2D05", "U+2D06", "U+2D07", "U+2D08", "U+2D09", "U+2D0A",
    "U+2D0B", "U+2D0C", "U+2D0D", "U+2D0E", "U+2D0F", "U+2D10", "U+2D11",
    "U+2D12", "U+2D13", "U+2D14", "U+2D15", "U+2D16", "U+2D17", "U+2D18",
    "U+2D19", "U+2D1A", "U+2D1B", "U+2D1C", "U+2D1D", "U+2D1E", "U+2D1F",
    "U+2D20", "U+2D21", "U+2D22", "U+2D23", "U+2D24", "U+2D25", "U+2D27",
    "U+2D2D", "U+A640", "U+A641", "U+A642", "U+A643", "U+A644", "U+A645",
    "U+A646", "U+A647", "U+A648", "U+A649", "U+A64A", "U+A64B", "U+A64C",
    "U+A64D", "U+A64E", "U+A64F", "U+A650", "U+A651", "U+A652", "U+A653",
    "U+A654", "U+A655", "U+A656", "U+A657", "U+A658", "U+A659", "U+A65A",
    "U+A65B", "U+A65C", "U+A65D", "U+A65E", "U+A65F", "U+A660", "U+A661",
    "U+A662", "U+A663", "U+A664", "U+A665", "U+A666", "U+A667", "U+A668",
    "U+A669", "U+A66A", "U+A66B", "U+A66C", "U+A66D", "Ꚁ", "ꚁ", "Ꚃ", "ꚃ", "Ꚅ",
    "ꚅ", "Ꚇ", "ꚇ", "Ꚉ", "ꚉ", "Ꚋ", "ꚋ", "Ꚍ", "ꚍ", "Ꚏ", "ꚏ", "Ꚑ", "ꚑ", "Ꚓ", "ꚓ",
    "Ꚕ", "ꚕ", "Ꚗ", "ꚗ", "Ꚙ", "ꚙ", "Ꚛ", "ꚛ", "U+A722", "U+A723", "U+A724",
    "U+A725", "U+A726", "U+A727", "U+A728", "U+A729", "U+A72A", "U+A72B",
    "U+A72C", "U+A72D", "U+A72E", "U+A72F", "U+A730", "U+A731", "U+A732",
    "U+A733", "U+A734", "U+A735", "U+A736", "U+A737", "U+A738", "U+A739",
    "U+A73A", "U+A73B", "U+A73C", "U+A73D", "U+A73E", "U+A73F", "U+A740",
    "U+A741", "U+A742", "U+A743", "U+A744", "U+A745", "U+A746", "U+A747",
    "U+A748", "U+A749", "U+A74A", "U+A74B", "U+A74C", "U+A74D", "U+A74E",
    "U+A74F", "U+A750", "U+A751", "U+A752", "U+A753", "U+A754", "U+A755",
    "U+A756", "U+A757", "U+A758", "U+A759", "U+A75A", "U+A75B", "U+A75C",
    "U+A75D", "U+A75E", "U+A75F", "U+A760", "U+A761", "U+A762", "U+A763",
    "U+A764", "U+A765", "U+A766", "U+A767", "U+A768", "U+A769", "U+A76A",
    "U+A76B", "U+A76C", "U+A76D", "U+A76E", "U+A76F", "U+A771", "U+A772",
    "U+A773", "U+A774", "U+A775", "U+A776", "U+A777", "U+A778", "U+A779",
    "U+A77A", "U+A77B", "U+A77C", "U+A77D", "U+A77E", "U+A77F", "Ꞁ", "ꞁ", "Ꞃ",
    "ꞃ", "Ꞅ", "ꞅ", "Ꞇ", "ꞇ", "Ꞌ", "ꞌ", "Ɥ", "ꞎ", "Ꞑ", "ꞑ", "Ꞓ", "ꞓ", "ꞔ", "ꞕ",
    "Ꞗ", "ꞗ", "Ꞙ", "ꞙ", "Ꞛ", "ꞛ", "Ꞝ", "ꞝ", "Ꞟ", "ꞟ", "Ꞡ", "ꞡ", "Ꞣ", "ꞣ", "Ꞥ",
    "ꞥ", "Ꞧ", "ꞧ", "Ꞩ", "ꞩ", "Ɦ", "Ɜ", "Ɡ", "Ɬ", "Ɪ", "ꞯ", "Ʞ", "Ʇ", "Ʝ", "Ꭓ",
    "Ꞵ", "ꞵ", "Ꞷ", "ꞷ", "Ꞹ", "ꞹ", "Ꞻ", "ꞻ", "Ꞽ", "ꞽ", "Ꞿ", "ꞿ", "Ꟁ", "ꟁ", "Ꟃ",
    "ꟃ", "Ꞔ", "Ʂ", "Ᶎ", "Ꟈ", "ꟈ", "Ꟊ", "ꟊ", "Ꟑ", "ꟑ", "ꟓ", "ꟕ", "Ꟗ", "ꟗ", "Ꟙ",
    "ꟙ", "Ꟶ", "ꟶ", "ꟺ", "U+AB30", "U+AB31", "U+AB32", "U+AB33", "U+AB34",
    "U+AB35", "U+AB36", "U+AB37", "U+AB38", "U+AB39", "U+AB3A", "U+AB3B",
    "U+AB3C", "U+AB3D", "U+AB3E", "U+AB3F", "U+AB40", "U+AB41", "U+AB42",
    "U+AB43", "U+AB44", "U+AB45", "U+AB46", "U+AB47", "U+AB48", "U+AB49",
    "U+AB4A", "U+AB4B", "U+AB4C", "U+AB4D", "U+AB4E", "U+AB4F", "U+AB50",
    "U+AB51", "U+AB52", "U+AB53", "U+AB54", "U+AB55", "U+AB56", "U+AB57",
    "U+AB58", "U+AB59", "U+AB5A", "U+AB60", "U+AB61", "U+AB62", "U+AB63",
    "U+AB64", "U+AB65", "U+AB66", "U+AB67", "U+AB68", "U+AB70", "U+AB71",
    "U+AB72", "U+AB73", "U+AB74", "U+AB75", "U+AB76", "U+AB77", "U+AB78",
    "U+AB79", "U+AB7A", "U+AB7B", "U+AB7C", "U+AB7D", "U+AB7E", "U+AB7F", "ꮀ",
    "ꮁ", "ꮂ", "ꮃ", "ꮄ", "ꮅ", "ꮆ", "ꮇ", "ꮈ", "ꮉ", "ꮊ", "ꮋ", "ꮌ", "ꮍ", "ꮎ", "ꮏ",
    "ꮐ", "ꮑ", "ꮒ", "ꮓ", "ꮔ", "ꮕ", "ꮖ", "ꮗ", "ꮘ", "ꮙ", "ꮚ", "ꮛ", "ꮜ", "ꮝ", "ꮞ",
    "ꮟ", "ꮠ", "ꮡ", "ꮢ", "ꮣ", "ꮤ", "ꮥ", "ꮦ", "ꮧ", "ꮨ", "ꮩ", "ꮪ", "ꮫ", "ꮬ", "ꮭ",
    "ꮮ", "ꮯ", "ꮰ", "ꮱ", "ꮲ", "ꮳ", "ꮴ", "ꮵ", "ꮶ", "ꮷ", "ꮸ", "ꮹ", "ꮺ", "ꮻ", "ꮼ",
    "ꮽ", "ꮾ", "ꮿ", "U+FB00", "U+FB01", "U+FB02", "U+FB03", "U+FB04", "U+FB05",
    "U+FB06", "U+FB13", "U+FB14", "U+FB15", "U+FB16", "U+FB17", "U+FF21",
    "U+FF22", "U+FF23", "U+FF24", "U+FF25", "U+FF26", "U+FF27", "U+FF28",
    "U+FF29", "U+FF2A", "U+FF2B", "U+FF2C", "U+FF2D", "U+FF2E", "U+FF2F",
    "U+FF30", "U+FF31", "U+FF32", "U+FF33", "U+FF34", "U+FF35", "U+FF36",
    "U+FF37", "U+FF38", "U+FF39", "U+FF3A", "U+FF41", "U+FF42", "U+FF43",
    "U+FF44", "U+FF45", "U+FF46", "U+FF47", "U+FF48", "U+FF49", "U+FF4A",
    "U+FF4B", "U+FF4C", "U+FF4D", "U+FF4E", "U+FF4F", "U+FF50", "U+FF51",
    "U+FF52", "U+FF53", "U+FF54", "U+FF55", "U+FF56", "U+FF57", "U+FF58",
    "U+FF59", "U+FF5A", "U+10400", "U+10401", "U+10402", "U+10403", "U+10404",
    "U+10405", "U+10406", "U+10407", "U+10408", "U+10409", "U+1040A",
    "U+1040B", "U+1040C", "U+1040D", "U+1040E", "U+1040F", "U+10410",
    "U+10411", "U+10412", "U+10413", "U+10414", "U+10415", "U+10416",
    "U+10417", "U+10418", "U+10419", "U+1041A", "U+1041B", "U+1041C",
    "U+1041D", "U+1041E", "U+1041F", "U+10420", "U+10421", "U+10422",
    "U+10423", "U+10424", "U+10425", "U+10426", "U+10427", "U+10428",
    "U+10429", "U+1042A", "U+1042B", "U+1042C", "U+1042D", "U+1042E",
    "U+1042F", "U+10430", "U+10431", "U+10432", "U+10433", "U+10434",
    "U+10435", "U+10436", "U+10437", "U+10438", "U+10439", "U+1043A",
    "U+1043B", "U+1043C", "U+1043D", "U+1043E", "U+1043F", "U+10440",
    "U+10441", "U+10442", "U+10443", "U+10444", "U+10445", "U+10446",
    "U+10447", "U+10448", "U+10449", "U+1044A", "U+1044B", "U+1044C",
    "U+1044D", "U+1044E", "U+1044F", "U+104B0", "U+104B1", "U+104B2",
    "U+104B3", "U+104B4", "U+104B5", "U+104B6", "U+104B7", "U+104B8",
    "U+104B9", "U+104BA", "U+104BB", "U+104BC", "U+104BD", "U+104BE",
    "U+104BF", "U+104C0", "U+104C1", "U+104C2", "U+104C3", "U+104C4",
    "U+104C5", "U+104C6", "U+104C7", "U+104C8", "U+104C9", "U+104CA",
    "U+104CB", "U+104CC", "U+104CD", "U+104CE", "U+104CF", "U+104D0",
    "U+104D1", "U+104D2", "U+104D3", "U+104D8", "U+104D9", "U+104DA",
    "U+104DB", "U+104DC", "U+104DD", "U+104DE", "U+104DF", "U+104E0",
    "U+104E1", "U+104E2", "U+104E3", "U+104E4", "U+104E5", "U+104E6",
    "U+104E7", "U+104E8", "U+104E9", "U+104EA", "U+104EB", "U+104EC",
    "U+104ED", "U+104EE", "U+104EF", "U+104F0", "U+104F1", "U+104F2",
    "U+104F3", "U+104F4", "U+104F5", "U+104F6", "U+104F7", "U+104F8",
    "U+104F9", "U+104FA", "U+104FB", "U+10570", "U+10571", "U+10572",
    "U+10573", "U+10574", "U+10575", "U+10576", "U+10577", "U+10578",
    "U+10579", "U+1057A", "U+1057C", "U+1057D", "U+1057E", "U+1057F",
    "U+10580", "U+10581", "U+10582", "U+10583", "U+10584", "U+10585",
    "U+10586", "U+10587", "U+10588", "U+10589", "U+1058A", "U+1058C",
    "U+1058D", "U+1058E", "U+1058F", "U+10590", "U+10591", "U+10592",
    "U+10594", "U+10595", "U+10597", "U+10598", "U+10599", "U+1059A",
    "U+1059B", "U+1059C", "U+1059D", "U+1059E", "U+1059F", "U+105A0",
    "U+105A1", "U+105A3", "U+105A4", "U+105A5", "U+105A6", "U+105A7",
    "U+105A8", "U+105A9", "U+105AA", "U+105AB", "U+105AC", "U+105AD",
    "U+105AE", "U+105AF", "U+105B0", "U+105B1", "U+105B3", "U+105B4",
    "U+105B5", "U+105B6", "U+105B7", "U+105B8", "U+105B9", "U+105BB",
    "U+105BC", "U+10C80", "U+10C81", "U+10C82", "U+10C83", "U+10C84",
    "U+10C85", "U+10C86", "U+10C87", "U+10C88", "U+10C89", "U+10C8A",
    "U+10C8B", "U+10C8C", "U+10C8D", "U+10C8E", "U+10C8F", "U+10C90",
    "U+10C91", "U+10C92", "U+10C93", "U+10C94", "U+10C95", "U+10C96",
    "U+10C97", "U+10C98", "U+10C99", "U+10C9A", "U+10C9B", "U+10C9C",
    "U+10C9D", "U+10C9E", "U+10C9F", "U+10CA0", "U+10CA1", "U+10CA2",
    "U+10CA3", "U+10CA4", "U+10CA5", "U+10CA6", "U+10CA7", "U+10CA8",
    "U+10CA9", "U+10CAA", "U+10CAB", "U+10CAC", "U+10CAD", "U+10CAE",
    "U+10CAF", "U+10CB0", "U+10CB1", "U+10CB2", "U+10CC0", "U+10CC1",
    "U+10CC2", "U+10CC3", "U+10CC4", "U+10CC5", "U+10CC6", "U+10CC7",
    "U+10CC8", "U+10CC9", "U+10CCA", "U+10CCB", "U+10CCC", "U+10CCD",
    "U+10CCE", "U+10CCF", "U+10CD0", "U+10CD1", "U+10CD2", "U+10CD3",
    "U+10CD4", "U+10CD5", "U+10CD6", "U+10CD7", "U+10CD8", "U+10CD9",
    "U+10CDA", "U+10CDB", "U+10CDC", "U+10CDD", "U+10CDE", "U+10CDF",
    "U+10CE0", "U+10CE1", "U+10CE2", "U+10CE3", "U+10CE4", "U+10CE5",
    "U+10CE6", "U+10CE7", "U+10CE8", "U+10CE9", "U+10CEA", "U+10CEB",
    "U+10CEC", "U+10CED", "U+10CEE", "U+10CEF", "U+10CF0", "U+10CF1",
    "U+10CF2", "U+118A0", "U+118A1", "U+118A2", "U+118A3", "U+118A4",
    "U+118A5", "U+118A6", "U+118A7", "U+118A8", "U+118A9", "U+118AA",
    "U+118AB", "U+118AC", "U+118AD", "U+118AE", "U+118AF", "U+118B0",
    "U+118B1", "U+118B2", "U+118B3", "U+118B4", "U+118B5", "U+118B6",
    "U+118B7", "U+118B8", "U+118B9", "U+118BA", "U+118BB", "U+118BC",
    "U+118BD", "U+118BE", "U+118BF", "U+118C0", "U+118C1", "U+118C2",
    "U+118C3", "U+118C4", "U+118C5", "U+118C6", "U+118C7", "U+118C8",
    "U+118C9", "U+118CA", "U+118CB", "U+118CC", "U+118CD", "U+118CE",
    "U+118CF", "U+118D0", "U+118D1", "U+118D2", "U+118D3", "U+118D4",
    "U+118D5", "U+118D6", "U+118D7", "U+118D8", "U+118D9", "U+118DA",
    "U+118DB", "U+118DC", "U+118DD", "U+118DE", "U+118DF", "U+16E40",
    "U+16E41", "U+16E42", "U+16E43", "U+16E44", "U+16E45", "U+16E46",
    "U+16E47", "U+16E48", "U+16E49", "U+16E4A", "U+16E4B", "U+16E4C",
    "U+16E4D", "U+16E4E", "U+16E4F", "U+16E50", "U+16E51", "U+16E52",
    "U+16E53", "U+16E54", "U+16E55", "U+16E56", "U+16E57", "U+16E58",
    "U+16E59", "U+16E5A", "U+16E5B", "U+16E5C", "U+16E5D", "U+16E5E",
    "U+16E5F", "U+16E60", "U+16E61", "U+16E62", "U+16E63", "U+16E64",
    "U+16E65", "U+16E66", "U+16E67", "U+16E68", "U+16E69", "U+16E6A",
    "U+16E6B", "U+16E6C", "U+16E6D", "U+16E6E", "U+16E6F", "U+16E70",
    "U+16E71", "U+16E72", "U+16E73", "U+16E74", "U+16E75", "U+16E76",
    "U+16E77", "U+16E78", "U+16E79", "U+16E7A", "U+16E7B", "U+16E7C",
    "U+16E7D", "U+16E7E", "U+16E7F", "U+1D400", "U+1D401", "U+1D402",
    "U+1D403", "U+1D404", "U+1D405", "U+1D406", "U+1D407", "U+1D408",
    "U+1D409", "U+1D40A", "U+1D40B", "U+1D40C", "U+1D40D", "U+1D40E",
    "U+1D40F", "U+1D410", "U+1D411", "U+1D412", "U+1D413", "U+1D414",
    "U+1D415", "U+1D416", "U+1D417", "U+1D418", "U+1D419", "U+1D41A",
    "U+1D41B", "U+1D41C", "U+1D41D", "U+1D41E", "U+1D41F", "U+1D420",
    "U+1D421", "U+1D422", "U+1D423", "U+1D424", "U+1D425", "U+1D426",
    "U+1D427", "U+1D428", "U+1D429", "U+1D42A", "U+1D42B", "U+1D42C",
    "U+1D42D", "U+1D42E", "U+1D42F", "U+1D430", "U+1D431", "U+1D432",
    "U+1D433", "U+1D434", "U+1D435", "U+1D436", "U+1D437", "U+1D438",
    "U+1D439", "U+1D43A", "U+1D43B", "U+1D43C", "U+1D43D", "U+1D43E",
    "U+1D43F", "U+1D440", "U+1D441", "U+1D442", "U+1D443", "U+1D444",
    "U+1D445", "U+1D446", "U+1D447", "U+1D448", "U+1D449", "U+1D44A",
    "U+1D44B", "U+1D44C", "U+1D44D", "U+1D44E", "U+1D44F", "U+1D450",
    "U+1D451", "U+1D452", "U+1D453", "U+1D454", "U+1D456", "U+1D457",
    "U+1D458", "U+1D459", "U+1D45A", "U+1D45B", "U+1D45C", "U+1D45D",
    "U+1D45E", "U+1D45F", "U+1D460", "U+1D461", "U+1D462", "U+1D463",
    "U+1D464", "U+1D465", "U+1D466", "U+1D467", "U+1D468", "U+1D469",
    "U+1D46A", "U+1D46B", "U+1D46C", "U+1D46D", "U+1D46E", "U+1D46F",
    "U+1D470", "U+1D471", "U+1D472", "U+1D473", "U+1D474", "U+1D475",
    "U+1D476", "U+1D477", "U+1D478", "U+1D479", "U+1D47A", "U+1D47B",
    "U+1D47C", "U+1D47D", "U+1D47E", "U+1D47F", "U+1D480", "U+1D481",
    "U+1D482", "U+1D483", "U+1D484", "U+1D485", "U+1D486", "U+1D487",
    "U+1D488", "U+1D489", "U+1D48A", "U+1D48B", "U+1D48C", "U+1D48D",
    "U+1D48E", "U+1D48F", "U+1D490", "U+1D491", "U+1D492", "U+1D493",
    "U+1D494", "U+1D495", "U+1D496", "U+1D497", "U+1D498", "U+1D499",
    "U+1D49A", "U+1D49B", "U+1D49C", "U+1D49E", "U+1D49F", "U+1D4A2",
    "U+1D4A5", "U+1D4A6", "U+1D4A9", "U+1D4AA", "U+1D4AB", "U+1D4AC",
    "U+1D4AE", "U+1D4AF", "U+1D4B0", "U+1D4B1", "U+1D4B2", "U+1D4B3",
    "U+1D4B4", "U+1D4B5", "U+1D4B6", "U+1D4B7", "U+1D4B8", "U+1D4B9",
    "U+1D4BB", "U+1D4BD", "U+1D4BE", "U+1D4BF", "U+1D4C0", "U+1D4C1",
    "U+1D4C2", "U+1D4C3", "U+1D4C5", "U+1D4C6", "U+1D4C7", "U+1D4C8",
    "U+1D4C9", "U+1D4CA", "U+1D4CB", "U+1D4CC", "U+1D4CD", "U+1D4CE",
    "U+1D4CF", "U+1D4D0", "U+1D4D1", "U+1D4D2", "U+1D4D3", "U+1D4D4",
    "U+1D4D5", "U+1D4D6", "U+1D4D7", "U+1D4D8", "U+1D4D9", "U+1D4DA",
    "U+1D4DB", "U+1D4DC", "U+1D4DD", "U+1D4DE", "U+1D4DF", "U+1D4E0",
    "U+1D4E1", "U+1D4E2", "U+1D4E3", "U+1D4E4", "U+1D4E5", "U+1D4E6",
    "U+1D4E7", "U+1D4E8", "U+1D4E9", "U+1D4EA", "U+1D4EB", "U+1D4EC",
    "U+1D4ED", "U+1D4EE", "U+1D4EF", "U+1D4F0", "U+1D4F1", "U+1D4F2",
    "U+1D4F3", "U+1D4F4", "U+1D4F5", "U+1D4F6", "U+1D4F7", "U+1D4F8",
    "U+1D4F9", "U+1D4FA", "U+1D4FB", "U+1D4FC", "U+1D4FD", "U+1D4FE",
    "U+1D4FF", "U+1D500", "U+1D501", "U+1D502", "U+1D503", "U+1D504",
    "U+1D505", "U+1D507", "U+1D508", "U+1D509", "U+1D50A", "U+1D50D",
    "U+1D50E", "U+1D50F", "U+1D510", "U+1D511", "U+1D512", "U+1D513",
    "U+1D514", "U+1D516", "U+1D517", "U+1D518", "U+1D519", "U+1D51A",
    "U+1D51B", "U+1D51C", "U+1D51E", "U+1D51F", "U+1D520", "U+1D521",
    "U+1D522", "U+1D523", "U+1D524", "U+1D525", "U+1D526", "U+1D527",
    "U+1D528", "U+1D529", "U+1D52A", "U+1D52B", "U+1D52C", "U+1D52D",
    "U+1D52E", "U+1D52F", "U+1D530", "U+1D531", "U+1D532", "U+1D533",
    "U+1D534", "U+1D535", "U+1D536", "U+1D537", "U+1D538", "U+1D539",
    "U+1D53B", "U+1D53C", "U+1D53D", "U+1D53E", "U+1D540", "U+1D541",
    "U+1D542", "U+1D543", "U+1D544", "U+1D546", "U+1D54A", "U+1D54B",
    "U+1D54C", "U+1D54D", "U+1D54E", "U+1D54F", "U+1D550", "U+1D552",
    "U+1D553", "U+1D554", "U+1D555", "U+1D556", "U+1D557", "U+1D558",
    "U+1D559", "U+1D55A", "U+1D55B", "U+1D55C", "U+1D55D", "U+1D55E",
    "U+1D55F", "U+1D560", "U+1D561", "U+1D562", "U+1D563", "U+1D564",
    "U+1D565", "U+1D566", "U+1D567", "U+1D568", "U+1D569", "U+1D56A",
    "U+1D56B", "U+1D56C", "U+1D56D", "U+1D56E", "U+1D56F", "U+1D570",
    "U+1D571", "U+1D572", "U+1D573", "U+1D574", "U+1D575", "U+1D576",
    "U+1D577", "U+1D578", "U+1D579", "U+1D57A", "U+1D57B", "U+1D57C",
    "U+1D57D", "U+1D57E", "U+1D57F", "U+1D580", "U+1D581", "U+1D582",
    "U+1D583", "U+1D584", "U+1D585", "U+1D586", "U+1D587", "U+1D588",
    "U+1D589", "U+1D58A", "U+1D58B", "U+1D58C", "U+1D58D", "U+1D58E",
    "U+1D58F", "U+1D590", "U+1D591", "U+1D592", "U+1D593", "U+1D594",
    "U+1D595", "U+1D596", "U+1D597", "U+1D598", "U+1D599", "U+1D59A",
    "U+1D59B", "U+1D59C", "U+1D59D", "U+1D59E", "U+1D59F", "U+1D5A0",
    "U+1D5A1", "U+1D5A2", "U+1D5A3", "U+1D5A4", "U+1D5A5", "U+1D5A6",
    "U+1D5A7", "U+1D5A8", "U+1D5A9", "U+1D5AA", "U+1D5AB", "U+1D5AC",
    "U+1D5AD", "U+1D5AE", "U+1D5AF", "U+1D5B0", "U+1D5B1", "U+1D5B2",
    "U+1D5B3", "U+1D5B4", "U+1D5B5", "U+1D5B6", "U+1D5B7", "U+1D5B8",
    "U+1D5B9", "U+1D5BA", "U+1D5BB", "U+1D5BC", "U+1D5BD", "U+1D5BE",
    "U+1D5BF", "U+1D5C0", "U+1D5C1", "U+1D5C2", "U+1D5C3", "U+1D5C4",
    "U+1D5C5", "U+1D5C6", "U+1D5C7", "U+1D5C8", "U+1D5C9", "U+1D5CA",
    "U+1D5CB", "U+1D5CC", "U+1D5CD", "U+1D5CE", "U+1D5CF", "U+1D5D0",
    "U+1D5D1", "U+1D5D2", "U+1D5D3", "U+1D5D4", "U+1D5D5", "U+1D5D6",
    "U+1D5D7", "U+1D5D8", "U+1D5D9", "U+1D5DA", "U+1D5DB", "U+1D5DC",
    "U+1D5DD", "U+1D5DE", "U+1D5DF", "U+1D5E0", "U+1D5E1", "U+1D5E2",
    "U+1D5E3", "U+1D5E4", "U+1D5E5", "U+1D5E6", "U+1D5E7", "U+1D5E8",
    "U+1D5E9", "U+1D5EA", "U+1D5EB", "U+1D5EC", "U+1D5ED", "U+1D5EE",
    "U+1D5EF", "U+1D5F0", "U+1D5F1", "U+1D5F2", "U+1D5F3", "U+1D5F4",
    "U+1D5F5", "U+1D5F6", "U+1D5F7", "U+1D5F8", "U+1D5F9", "U+1D5FA",
    "U+1D5FB", "U+1D5FC", "U+1D5FD", "U+1D5FE", "U+1D5FF", "U+1D600",
    "U+1D601", "U+1D602", "U+1D603", "U+1D604", "U+1D605", "U+1D606",
    "U+1D607", "U+1D608", "U+1D609", "U+1D60A", "U+1D60B", "U+1D60C",
    "U+1D60D", "U+1D60E", "U+1D60F", "U+1D610", "U+1D611", "U+1D612",
    "U+1D613", "U+1D614", "U+1D615", "U+1D616", "U+1D617", "U+1D618",
    "U+1D619", "U+1D61A", "U+1D61B", "U+1D61C", "U+1D61D", "U+1D61E",
    "U+1D61F", "U+1D620", "U+1D621", "U+1D622", "U+1D623", "U+1D624",
    "U+1D625", "U+1D626", "U+1D627", "U+1D628", "U+1D629", "U+1D62A",
    "U+1D62B", "U+1D62C", "U+1D62D", "U+1D62E", "U+1D62F", "U+1D630",
    "U+1D631", "U+1D632", "U+1D633", "U+1D634", "U+1D635", "U+1D636",
    "U+1D637", "U+1D638", "U+1D639", "U+1D63A", "U+1D63B", "U+1D63C",
    "U+1D63D", "U+1D63E", "U+1D63F", "U+1D640", "U+1D641", "U+1D642",
    "U+1D643", "U+1D644", "U+1D645", "U+1D646", "U+1D647", "U+1D648",
    "U+1D649", "U+1D64A", "U+1D64B", "U+1D64C", "U+1D64D", "U+1D64E",
    "U+1D64F", "U+1D650", "U+1D651", "U+1D652", "U+1D653", "U+1D654",
    "U+1D655", "U+1D656", "U+1D657", "U+1D658", "U+1D659", "U+1D65A",
    "U+1D65B", "U+1D65C", "U+1D65D", "U+1D65E", "U+1D65F", "U+1D660",
    "U+1D661", "U+1D662", "U+1D663", "U+1D664", "U+1D665", "U+1D666",
    "U+1D667", "U+1D668", "U+1D669", "U+1D66A", "U+1D66B", "U+1D66C",
    "U+1D66D", "U+1D66E", "U+1D66F", "U+1D670", "U+1D671", "U+1D672",
    "U+1D673", "U+1D674", "U+1D675", "U+1D676", "U+1D677", "U+1D678",
    "U+1D679", "U+1D67A", "U+1D67B", "U+1D67C", "U+1D67D", "U+1D67E",
    "U+1D67F", "U+1D680", "U+1D681", "U+1D682", "U+1D683", "U+1D684",
    "U+1D685", "U+1D686", "U+1D687", "U+1D688", "U+1D689", "U+1D68A",
    "U+1D68B", "U+1D68C", "U+1D68D", "U+1D68E", "U+1D68F", "U+1D690",
    "U+1D691", "U+1D692", "U+1D693", "U+1D694", "U+1D695", "U+1D696",
    "U+1D697", "U+1D698", "U+1D699", "U+1D69A", "U+1D69B", "U+1D69C",
    "U+1D69D", "U+1D69E", "U+1D69F", "U+1D6A0", "U+1D6A1", "U+1D6A2",
    "U+1D6A3", "U+1D6A4", "U+1D6A5", "U+1D6A8", "U+1D6A9", "U+1D6AA",
    "U+1D6AB", "U+1D6AC", "U+1D6AD", "U+1D6AE", "U+1D6AF", "U+1D6B0",
    "U+1D6B1", "U+1D6B2", "U+1D6B3", "U+1D6B4", "U+1D6B5", "U+1D6B6",
    "U+1D6B7", "U+1D6B8", "U+1D6B9", "U+1D6BA", "U+1D6BB", "U+1D6BC",
    "U+1D6BD", "U+1D6BE", "U+1D6BF", "U+1D6C0", "U+1D6C2", "U+1D6C3",
    "U+1D6C4", "U+1D6C5", "U+1D6C6", "U+1D6C7", "U+1D6C8", "U+1D6C9",
    "U+1D6CA", "U+1D6CB", "U+1D6CC", "U+1D6CD", "U+1D6CE", "U+1D6CF",
    "U+1D6D0", "U+1D6D1", "U+1D6D2", "U+1D6D3", "U+1D6D4", "U+1D6D5",
    "U+1D6D6", "U+1D6D7", "U+1D6D8", "U+1D6D9", "U+1D6DA", "U+1D6DC",
    "U+1D6DD", "U+1D6DE", "U+1D6DF", "U+1D6E0", "U+1D6E1", "U+1D6E2",
    "U+1D6E3", "U+1D6E4", "U+1D6E5", "U+1D6E6", "U+1D6E7", "U+1D6E8",
    "U+1D6E9", "U+1D6EA", "U+1D6EB", "U+1D6EC", "U+1D6ED", "U+1D6EE",
    "U+1D6EF", "U+1D6F0", "U+1D6F1", "U+1D6F2", "U+1D6F3", "U+1D6F4",
    "U+1D6F5", "U+1D6F6", "U+1D6F7", "U+1D6F8", "U+1D6F9", "U+1D6FA",
    "U+1D6FC", "U+1D6FD", "U+1D6FE", "U+1D6FF", "U+1D700", "U+1D701",
    "U+1D702", "U+1D703", "U+1D704", "U+1D705", "U+1D706", "U+1D707",
    "U+1D708", "U+1D709", "U+1D70A", "U+1D70B", "U+1D70C", "U+1D70D",
    "U+1D70E", "U+1D70F", "U+1D710", "U+1D711", "U+1D712", "U+1D713",
    "U+1D714", "U+1D716", "U+1D717", "U+1D718", "U+1D719", "U+1D71A",
    "U+1D71B", "U+1D71C", "U+1D71D", "U+1D71E", "U+1D71F", "U+1D720",
    "U+1D721", "U+1D722", "U+1D723", "U+1D724", "U+1D725", "U+1D726",
    "U+1D727", "U+1D728", "U+1D729", "U+1D72A", "U+1D72B", "U+1D72C",
    "U+1D72D", "U+1D72E", "U+1D72F", "U+1D730", "U+1D731", "U+1D732",
    "U+1D733", "U+1D734", "U+1D736", "U+1D737", "U+1D738", "U+1D739",
    "U+1D73A", "U+1D73B", "U+1D73C", "U+1D73D", "U+1D73E", "U+1D73F",
    "U+1D740", "U+1D741", "U+1D742", "U+1D743", "U+1D744", "U+1D745",
    "U+1D746", "U+1D747", "U+1D748", "U+1D749", "U+1D74A", "U+1D74B",
    "U+1D74C", "U+1D74D", "U+1D74E", "U+1D750", "U+1D751", "U+1D752",
    "U+1D753", "U+1D754", "U+1D755", "U+1D756", "U+1D757", "U+1D758",
    "U+1D759", "U+1D75A", "U+1D75B", "U+1D75C", "U+1D75D", "U+1D75E",
    "U+1D75F", "U+1D760", "U+1D761", "U+1D762", "U+1D763", "U+1D764",
    "U+1D765", "U+1D766", "U+1D767", "U+1D768", "U+1D769", "U+1D76A",
    "U+1D76B", "U+1D76C", "U+1D76D", "U+1D76E", "U+1D770", "U+1D771",
    "U+1D772", "U+1D773", "U+1D774", "U+1D775", "U+1D776", "U+1D777",
    "U+1D778", "U+1D779", "U+1D77A", "U+1D77B", "U+1D77C", "U+1D77D",
    "U+1D77E", "U+1D77F", "U+1D780", "U+1D781", "U+1D782", "U+1D783",
    "U+1D784", "U+1D785", "U+1D786", "U+1D787", "U+1D788", "U+1D78A",
    "U+1D78B", "U+1D78C", "U+1D78D", "U+1D78E", "U+1D78F", "U+1D790",
    "U+1D791", "U+1D792", "U+1D793", "U+1D794", "U+1D795", "U+1D796",
    "U+1D797", "U+1D798", "U+1D799", "U+1D79A", "U+1D79B", "U+1D79C",
    "U+1D79D", "U+1D79E", "U+1D79F", "U+1D7A0", "U+1D7A1", "U+1D7A2",
    "U+1D7A3", "U+1D7A4", "U+1D7A5", "U+1D7A6", "U+1D7A7", "U+1D7A8",
    "U+1D7AA", "U+1D7AB", "U+1D7AC", "U+1D7AD", "U+1D7AE", "U+1D7AF",
    "U+1D7B0", "U+1D7B1", "U+1D7B2", "U+1D7B3", "U+1D7B4", "U+1D7B5",
    "U+1D7B6", "U+1D7B7", "U+1D7B8", "U+1D7B9", "U+1D7BA", "U+1D7BB",
    "U+1D7BC", "U+1D7BD", "U+1D7BE", "U+1D7BF", "U+1D7C0", "U+1D7C1",
    "U+1D7C2", "U+1D7C4", "U+1D7C5", "U+1D7C6", "U+1D7C7", "U+1D7C8",
    "U+1D7C9", "U+1D7CA", "U+1D7CB", "U+1DF00", "U+1DF01", "U+1DF02",
    "U+1DF03", "U+1DF04", "U+1DF05", "U+1DF06", "U+1DF07", "U+1DF08",
    "U+1DF09", "U+1DF0B", "U+1DF0C", "U+1DF0D", "U+1DF0E", "U+1DF0F",
    "U+1DF10", "U+1DF11", "U+1DF12", "U+1DF13", "U+1DF14", "U+1DF15",
    "U+1DF16", "U+1DF17", "U+1DF18", "U+1DF19", "U+1DF1A", "U+1DF1B",
    "U+1DF1C", "U+1DF1D", "U+1DF1E", "U+1E900", "U+1E901", "U+1E902",
    "U+1E903", "U+1E904", "U+1E905", "U+1E906", "U+1E907", "U+1E908",
    "U+1E909", "U+1E90A", "U+1E90B", "U+1E90C", "U+1E90D", "U+1E90E",
    "U+1E90F", "U+1E910", "U+1E911", "U+1E912", "U+1E913", "U+1E914",
    "U+1E915", "U+1E916", "U+1E917", "U+1E918", "U+1E919", "U+1E91A",
    "U+1E91B", "U+1E91C", "U+1E91D", "U+1E91E", "U+1E91F", "U+1E920",
    "U+1E921", "U+1E922", "U+1E923", "U+1E924", "U+1E925", "U+1E926",
    "U+1E927", "U+1E928", "U+1E929", "U+1E92A", "U+1E92B", "U+1E92C",
    "U+1E92D", "U+1E92E", "U+1E92F", "U+1E930", "U+1E931", "U+1E932",
    "U+1E933", "U+1E934", "U+1E935", "U+1E936", "U+1E937", "U+1E938",
    "U+1E939", "U+1E93A", "U+1E93B", "U+1E93C", "U+1E93D", "U+1E93E",
    "U+1E93F", "U+1E940", "U+1E941", "U+1E942", "U+1E943", "U+1F130",
    "U+1F131", "U+1F132", "U+1F133", "U+1F134", "U+1F135", "U+1F136",
    "U+1F137", "U+1F138", "U+1F139", "U+1F13A", "U+1F13B", "U+1F13C",
    "U+1F13D", "U+1F13E", "U+1F13F", "U+1F140", "U+1F141", "U+1F142",
    "U+1F143", "U+1F144", "U+1F145", "U+1F146", "U+1F147", "U+1F148",
    "U+1F149", "U+1F150", "U+1F151", "U+1F152", "U+1F153", "U+1F154",
    "U+1F155", "U+1F156", "U+1F157", "U+1F158", "U+1F159", "U+1F15A",
    "U+1F15B", "U+1F15C", "U+1F15D", "U+1F15E", "U+1F15F", "U+1F160",
    "U+1F161", "U+1F162", "U+1F163", "U+1F164", "U+1F165", "U+1F166",
    "U+1F167", "U+1F168", "U+1F169", "U+1F170", "U+1F171", "U+1F172",
    "U+1F173", "U+1F174", "U+1F175", "U+1F176", "U+1F177", "U+1F178",
    "U+1F179", "U+1F17A", "U+1F17B", "U+1F17C", "U+1F17D", "U+1F17E",
    "U+1F17F", "U+1F180", "U+1F181", "U+1F182", "U+1F183", "U+1F184",
    "U+1F185", "U+1F186", "U+1F187", "U+1F188", "U+1F189" }

\* int() on one character of DIGIT_VALUES
DigitOf ==
    [c \in {DIGIT_VALUES[i] : i \in DOMAIN DIGIT_VALUES} |->
        ((CHOOSE i \in DOMAIN DIGIT_VALUES : DIGIT_VALUES[i] = c) - 1) % 10]

\* the mapping a case table stands for: each character it lists, with the
\* characters it becomes
CaseMap(T) ==
    [c \in {T.from[i] : i \in DOMAIN T.from} \cup {T.xfrom[i] : i \in DOMAIN T.xfrom} |->
        IF \E i \in DOMAIN T.from : T.from[i] = c
        THEN <<T.to[CHOOSE i \in DOMAIN T.from : T.from[i] = c]>>
        ELSE LET i == CHOOSE i \in DOMAIN T.xfrom : T.xfrom[i] = c
             IN SelectSeq(<<T.x1[i], T.x2[i], T.x3[i]>>, LAMBDA x : x # "")]
UpperOf == CaseMap(UPPER_CASE)
LowerOf == CaseMap(LOWER_CASE)

(***************************************************************************)
(* Python string primitives over sequences of characters.                  *)
(***************************************************************************)
\* str.upper() on one character: the characters it becomes
UpperChar(c) == IF c \in DOMAIN UpperOf THEN UpperOf[c] ELSE <<c>>

\* str.upper()
RECURSIVE Upper(_)
Upper(s) == IF s = <<>> THEN <<>> ELSE UpperChar(Head(s)) \o Upper(Tail(s))

\* str.isspace() on one character, the class \s of re
IsSpace(c) == c \in WHITESPACE
\* the class \d of re on a str pattern: every Unicode decimal digit
IsDigit(c) == c \in DOMAIN DigitOf
\* the class [0-9]
IsAsciiDigit(c) == c \in {"0","1","2","3","4","5","6","7","8","9"}
\* the class [\d\.]
IsDigitOrDot(c) == IsDigit(c) \/ c = "."

\* str.strip(): drop leading and trailing whitespace
Strip(s) ==
    LET keep == {i \in 1..Len(s) : ~IsSpace(s[i])}
    IN IF keep = {} THEN <<>> ELSE SubSeq(s, SetMin(keep), SetMax(keep))

\* str.startswith(p)
StartsWith(s, p) == Len(p) <= Len(s) /\ SubSeq(s, 1, Len(p)) = p

\* len(s.split(sep)) for a one-character separator
SplitCount(s, sep) == 1 + Cardinality({i \in 1..Len(s) : s[i] = sep})

\* needle in hay (Python substring test)
Contains(hay, needle) ==
    \E i \in 0..(Len(hay) - Len(needle)) :
        SubSeq(hay, i + 1, i + Len(needle)) = needle

\* re.sub(r'[^0-9]', '', s)
DigitsOnly(s) == SelectSeq(s, IsAsciiDigit)

\* the character c matches the upper-case letter k of a pattern compiled
\* with re.IGNORECASE
MatchesCI(c, k) ==
    c = k \/ UpperChar(c) = <<k>> \/ (k = "I" /\ c = "U+0130")

\* the keyword kw (upper case) occurs in s at position p, ignoring case
MatchAtCI(s, p, kw) ==
    /\ p + Len(kw) - 1 <= Len(s)
    /\ \A j \in 1..Len(kw) : MatchesCI(s[p + j - 1], kw[j])

\* the maximal run of [\d.] starting at position g
RunFrom(s, g) ==
    LET stops == {i \in g..Len(s) : ~IsDigitOrDot(s[i])}
        last == IF stops = {} THEN Len(s)
                ELSE (CHOOSE i \in stops : \A j \in stops : i <= j) - 1
    IN SubSeq(s, g, last)

(***************************************************************************)
(* Optional values (Python None or a string).                              *)
(***************************************************************************)
NoneVal == [isNone |-> TRUE, val |-> <<>>]
Some(s) == [isNone |-> FALSE, val |-> s]
\* Python truthiness of an optional string
Truthy(o) == ~o.isNone /\ o.val # <<>>

(***************************************************************************)
(* Bounds of the model and constants of the program.                       *)
(***************************************************************************)
\* number of chunks of the corpus the service is started on
MaxDocs == 3
\* stop_after_attempt(3) of _query_faiss
SEARCH_ATTEMPTS == 3
\* n_results_faiss of get_context
N_RESULTS_FAISS == 10
\* the k that get_response passes to get_context
K_DEFAULT == 10

(***************************************************************************)
(* A corpus as an ingestion run leaves it in documents_map.json: ids doc_N *)
(* in order, ID_UNICO as normalize_law_id and extract_article_id build it. *)
(***************************************************************************)
ID_LC_715_2018 == <<"L","C","_","7","1","5","_","2","0","1","8">>
ID_LC_715_2018_ART_4 == ID_LC_715_2018 \o <<"_","A","R","T","_","4">>
ID_LEI_17150_2019 == <<"L","E","I","_","1","7","1","5","0","_","2","0","1","9">>
ID_DECRETO_456_2021 ==
    <<"D","E","C","R","E","T","O","_","4","5","6","_","2","0","2","1">>
ID_LEI_9_2020 == <<"L","E","I","_","9","_","2","0","2","0">>

FullCorpus ==
    << [id |-> "doc_1", text |-> "chunk_1",
        fonte |-> "LEI COMPLEMENTAR 715 2018.html", ID_UNICO |-> ID_LC_715_2018],
       [id |-> "doc_2", text |-> "chunk_2",
        fonte |-> "LEI 17150 2019.html", ID_UNICO |-> ID_LEI_17150_2019],
       [id |-> "doc_3", text |-> "chunk_3",
        fonte |-> "LEI COMPLEMENTAR 715 2018.html",
        ID_UNICO |-> ID_LC_715_2018_ART_4],
       [id |-> "doc_4", text |-> "chunk_4",
        fonte |-> "DECRETO 456 2021.html", ID_UNICO |-> ID_DECRETO_456_2021],
       [id |-> "doc_5", text |-> "chunk_5",
        fonte |-> "LEI COMPLEMENTAR 715 2018.html", ID_UNICO |-> ID_LC_715_2018] >>

Corpus(n) == SubSeq(FullCorpus, 1, Min(n, Len(FullCorpus)))

\* the vector the embedding service returns for a text
Vec(text) == <<"vec", text>>
\* the rows of the index built over a list of chunks
RowsOf(chunks) == [i \in 1..Len(chunks) |-> Vec(chunks[i].text)]

(***************************************************************************)
(* Inputs of the service.                                                  *)
(***************************************************************************)
Q_LC_715 == <<"L","C"," ","7","1","5">>
Q_MULTA == <<"m","u","l","t","a">>
Q_LEI_99 == <<"l","e","i"," ","n","º"," ","9",".","9">>
Q_N_2018 == <<"e","m"," ","n"," ","2","0","1","8">>
Q_LEI_DOT == <<"L","E","I",".">>
Queries == {Q_LC_715, Q_MULTA, Q_LEI_99, Q_N_2018, Q_LEI_DOT}

Turn(role, content) == <<role, content>>
\* histories as app_web.py builds them: the last turn is the current question
Histories(q) ==
    { << Turn("user", q) >>,
      << Turn("assistant", <<"o","i">>), Turn("user", Q_LC_715),
         Turn("assistant", <<"o","k">>), Turn("user", Q_MULTA),
         Turn("assistant", <<"o","k">>), Turn("user", q) >> }

\* texts the identifier-extraction LLM call may answer with
ExtractTexts ==
    { ID_LC_715_2018,
      <<" ">> \o <<"l","c","_","7","1","5","_","2","0","1","8","\r","\n">>,
      <<"N","U","L","O">>,
      ID_LEI_9_2020,
      ID_LC_715_2018_ART_4,
      <<"L","C","_","7","1","5">>,
      <<"I","D",":"," ">> \o ID_LC_715_2018 }

\* texts the intent classifier may answer with
NAO_JURIDICA == <<"N","A","O","_","J","U","R","I","D","I","C","A">>
JURIDICA == <<"J","U","R","I","D","I","C","A">>
ClassifyTexts ==
    { NAO_JURIDICA,
      JURIDICA,
      <<" ","n","a","o","_","j","u","r","i","d","i","c","a","\r","\n">>,
      NAO_JURIDICA \o <<".">>,
      <<"N","A","O"," ","J","U","R","I","D","I","C","A">>,
      <<>> }

\* values of k a direct caller of get_context passes
DirectKs == {1, 2, K_DEFAULT}

(***************************************************************************)
(* rag_service.py: pure parts.                                             *)
(***************************************************************************)
IdPrefixes == { <<"L","C","_">>, <<"L","E","I","_">>,
                <<"D","E","C","R","E","T","O","_">> }

\* extract_unique_id accepting every text that starts with a law type
extract_unique_id_any_parts(raised, text) ==
    IF raised THEN NoneVal
    ELSE LET extracted_id == Upper(Strip(text))
         IN IF \E p \in IdPrefixes : StartsWith(extracted_id, p)
            THEN Some(extracted_id) ELSE NoneVal

\* extract_unique_id, lines 136-153: raised is the outcome of the LLM call,
\* text its response.text
extract_unique_id(raised, text) ==
    IF raised THEN NoneVal
    ELSE LET extracted_id == Upper(Strip(text))
         IN IF /\ \E p \in IdPrefixes : StartsWith(extracted_id, p)
               /\ SplitCount(extracted_id, "_") = 3
            THEN Some(extracted_id) ELSE NoneVal

Keywords == { <<"L","C">>, <<"L","E","I">>, <<"D","E","C","R","E","T","O">> }

\* position after the keyword (LC|LEI|DECRETO) matching at p, 0 if none does
KwEnd(s, p) ==
    IF \E kw \in Keywords : MatchAtCI(s, p, kw)
    THEN p + Len(CHOOSE kw \in Keywords : MatchAtCI(s, p, kw))
    ELSE 0

\* start of group 2 of (LC|LEI|DECRETO)\s*(?:[^\d]+)?\s*([\d\.]+) when the
\* keyword ends before position e: the greedy non-digit run stops at the first
\* digit; with no digit left, backtracking ends on the last dot; 0 if no match
Group2Start(s, e) ==
    LET digits == {i \in e..Len(s) : IsDigit(s[i])}
        dots == {i \in e..Len(s) : s[i] = "."}
    IN IF digits # {} THEN SetMin(digits)
       ELSE IF dots # {} THEN SetMax(dots)
       ELSE 0

\* re.search of the first pattern, line 163: group(2) of the leftmost match
Regex1Group2(s) ==
    LET starts == {p \in 1..Len(s) :
                      KwEnd(s, p) # 0 /\ Group2Start(s, KwEnd(s, p)) # 0}
    IN IF starts = {} THEN NoneVal
       ELSE Some(RunFrom(s, Group2Start(s, KwEnd(s, SetMin(starts)))))

\* start of group 1 of Nº?\s*([\d\.]{4,}) for an N at position p, 0 if none
FallbackStart(s, p) ==
    IF p > Len(s) \/ ~MatchesCI(s[p], "N") THEN 0
    ELSE LET a == IF p + 1 <= Len(s) /\ s[p + 1] = "º" THEN p + 2 ELSE p + 1
             nonsp == {i \in a..Len(s) : ~IsSpace(s[i])}
             g == IF nonsp = {} THEN 0 ELSE SetMin(nonsp)
         IN IF g # 0 /\ IsDigitOrDot(s[g]) /\ Len(RunFrom(s, g)) >= 4
            THEN g ELSE 0

\* re.search of the fallback pattern, line 177: group(1) of the leftmost match
Regex2Group1(s) ==
    LET starts == {p \in 1..Len(s) : FallbackStart(s, p) # 0}
    IN IF starts = {} THEN NoneVal
       ELSE Some(RunFrom(s, FallbackStart(s, SetMin(starts))))

\* extract_law_number_from_query, lines 156-184
extract_law_number_from_query(query) ==
    LET m1 == Regex1Group2(query)
        m2 == Regex2Group1(query)
    IN IF ~m1.isNone /\ DigitsOnly(m1.val) # <<>> THEN Some(DigitsOnly(m1.val))
       ELSE IF ~m2.isNone /\ DigitsOnly(m2.val) # <<>>
            THEN Some(DigitsOnly(m2.val))
       ELSE NoneVal

\* classify_intent, lines 387-402: raised is the outcome of the LLM call,
\* text its response.text
classify_intent_closed(raised, text) ==
    IF raised THEN NAO_JURIDICA
    ELSE LET classification == Upper(Strip(text))
         IN IF classification \in {JURIDICA, NAO_JURIDICA}
            THEN classification ELSE JURIDICA
classify_intent(raised, text) ==
    IF raised THEN JURIDICA
    ELSE LET classification == Upper(Strip(text))
         IN IF classification \in {JURIDICA, NAO_JURIDICA}
            THEN classification ELSE JURIDICA

\* classify_intent, lines 371-376: the question put to the classifier
ContextualizedQuery(query_text, history) ==
    LET prev == {i \in 1..Len(history) :
                    history[i][1] = "user" /\ history[i][2] # query_text}
    IN IF Len(history) > 1 /\ prev # {} /\ history[SetMax(prev)][2] # <<>>
       THEN [previous |-> Some(history[SetMax(prev)][2]), query |-> query_text]
       ELSE [previous |-> NoneVal, query |-> query_text]

\* every turn before the last one goes into the rewrite prompt
RewriteContextTurns_all(history) == SubSeq(history, 1, Len(history) - 1)

\* rewrite_query_with_context, lines 192-197: history[:-1][-4:]
RewriteContextTurns(history) ==
    LET recent == SubSeq(history, 1, Len(history) - 1)
    IN SubSeq(recent, IF Len(recent) > 4 THEN Len(recent) - 3 ELSE 1, Len(recent))

\* str.replace('\n', ' ')
ReplaceNewlines(s) == [i \in 1..Len(s) |-> IF s[i] = "\n" THEN " " ELSE s[i]]

\* text the rewrite LLM call answers with
REWRITE_TEXT == <<"l","e","i","\n","7","4","1","\r","\n">>

\* rewrite_query_with_context, lines 222-236
rewrite_query_with_context(raised, text, user_query) ==
    IF raised THEN user_query ELSE ReplaceNewlines(Strip(text))

\* os.path.basename(source) if source else 'Fonte Desconhecida'; fonte is a
\* file name os.walk returned, which holds no path separator
SourceName(source) == IF source = "" THEN "Fonte Desconhecida" ELSE source

\* get_context, lines 272-279: is_match for one entry of the map
IsMatch_substring(current_unique_id, target_unique_id, target_law_number) ==
    IF Truthy(target_unique_id)
       /\ Contains(current_unique_id, target_unique_id.val) THEN TRUE
    ELSE IF Truthy(target_law_number)
            /\ Contains(current_unique_id, target_law_number.val) THEN TRUE
    ELSE FALSE
IsMatch(current_unique_id, target_unique_id, target_law_number) ==
    IF Truthy(target_unique_id) /\ current_unique_id = target_unique_id.val
    THEN TRUE
    ELSE IF Truthy(target_law_number)
            /\ Contains(current_unique_id, target_law_number.val) THEN TRUE
    ELSE FALSE

\* "\n\n---\n\n".join(parts): the parts with a separator between neighbours;
\* the string is empty exactly when there is no part
SEPARATOR == [sep |-> TRUE, label |-> "", n |-> 0, source |-> "", text |-> ""]
JoinParts(parts) ==
    [i \in 1..(IF Len(parts) = 0 THEN 0 ELSE 2 * Len(parts) - 1) |->
        IF i % 2 = 1 THEN parts[(i + 1) \div 2] ELSE SEPARATOR]
\* the parts of a joined context
PartsOf(context) == SelectSeq(context, LAMBDA x : ~x.sep)

\* get_context, lines 269-289: the forced scan over the map, in map order
ForcedEntries(map, target_unique_id, target_law_number) ==
    SelectSeq(map, LAMBDA item :
        IsMatch(item.ID_UNICO, target_unique_id, target_law_number))
ForcedParts(map, target_unique_id, target_law_number) ==
    LET m == ForcedEntries(map, target_unique_id, target_law_number)
    IN [i \in 1..Len(m) |->
          [sep |-> FALSE, label |-> "Contexto Forçado", n |-> 0,
           source |-> SourceName(m[i].fonte), text |-> m[i].text]]
ForcedSources(map, target_unique_id, target_law_number) ==
    LET m == ForcedEntries(map, target_unique_id, target_law_number)
    IN {SourceName(m[i].fonte) : i \in 1..Len(m)}

\* VECTOR_INDEX.search(query_embedding, n): the labels row.  The nearest
\* min(n, ntotal) rows in some order of distance, then the filler -1
SearchResults(ntotal, n) ==
    LET m == Min(n, ntotal)
        orders == {f \in [1..m -> 0..(ntotal - 1)] :
                      \A a, b \in 1..m : a # b => f[a] # f[b]}
    IN {[i \in 1..n |-> IF i <= m THEN f[i] ELSE -1] : f \in orders}

\* list(DOCUMENTS_MAP.keys())[index]: position (1-based) that Python's list
\* indexing reads; valid for -len <= index < len, IndexError otherwise
PyIndexOk(len, index) == -len <= index /\ index < len
PyIndexPos(len, index) == IF index >= 0 THEN index + 1 ELSE len + index + 1

\* get_context, line 344: the guard of the translation loop
Translated(map, index) == index < Len(map)

\* get_context, lines 342-354: the translation loop raises IndexError
TranslationRaises(map, indices) ==
    \E i \in 1..Len(indices) :
        Translated(map, indices[i]) /\ ~PyIndexOk(Len(map), indices[i])

\* get_context, lines 342-354: the parts collected by the translation loop
VectorParts(map, indices) ==
    LET kept == SelectSeq([i \in 1..Len(indices) |-> <<i, indices[i]>>],
                          LAMBDA x : Translated(map, x[2]))
    IN [j \in 1..Len(kept) |->
          LET item == map[PyIndexPos(Len(map), kept[j][2])]
          IN [sep |-> FALSE, label |-> "Contexto", n |-> kept[j][1],
              source |-> SourceName(item.fonte), text |-> item.text]]
VectorSources(map, indices) ==
    LET parts == VectorParts(map, indices)
    IN {parts[j].source : j \in 1..Len(parts)}

\* get_context, lines 331 and 360: "except Exception" catches every exception
\* raised by the embedding call, by tenacity (RetryError) and by the loop
GetContextCatches_only_api(exc) == exc = "APIError"
GetContextCatches(exc) == exc \in {"APIError", "AttributeError", "RetryError",
                                   "IndexError", "Exception"}

\* fixed texts of get_response, lines 414-419, 428 and 464
FORA_DE_ESCOPO_MSG ==
    <<"A", " ", "s", "u", "a", " ", "p", "e", "r", "g", "u", "n", "t", "a",
      " ", "f", "o", "i", " ", "c", "l", "a", "s", "s", "i", "f", "i", "c",
      "a", "d", "a", " ", "c", "o", "m", "o", " ", "d", "e", " ", "c", "o",
      "n", "h", "e", "c", "i", "m", "e", "n", "t", "o", " ", "g", "e", "r",
      "a", "l", "/", "n", "ã", "o", "-", "j", "u", "r", "í", "d", "i", "c",
      "a", ".", " ", "M", "i", "n", "h", "a", " ", "f", "u", "n", "ç", "ã",
      "o", " ", "é", " ", "e", "s", "t", "r", "i", "t", "a", "m", "e", "n",
      "t", "e", " ", "a", " ", "c", "o", "n", "s", "u", "l", "t", "o", "r",
      "i", "a", " ", "d", "e", " ", "l", "e", "i", "s", " ", "e", "s", "t",
      "a", "d", "u", "a", "i", "s", " ", "d", "e", " ", "S", "a", "n", "t",
      "a", " ", "C", "a", "t", "a", "r", "i", "n", "a", ".", " ", "P", "o",
      "r", " ", "n", "ã", "o", " ", "p", "o", "s", "s", "u", "i", "r", " ",
      "u", "m", "a", " ", "b", "a", "s", "e", " ", "d", "e", " ", "d", "a",
      "d", "o", "s", " ", "c", "o", "m", " ", "f", "a", "t", "o", "s", " ",
      "a", "t", "u", "a", "i", "s", " ", "o", "u", " ", "i", "n", "f", "o",
      "r", "m", "a", "ç", "õ", "e", "s", " ", "n", "ã", "o", "-", "j", "u",
      "r", "í", "d", "i", "c", "a", "s", ",", " ", "n", "ã", "o", " ", "p",
      "o", "s", "s", "o", " ", "f", "o", "r", "n", "e", "c", "e", "r", " ",
      "a", " ", "i", "n", "f", "o", "r", "m", "a", "ç", "ã", "o", " ", "s",
      "o", "l", "i", "c", "i", "t", "a", "d", "a", ".", " ", "P", "o", "r",
      " ", "f", "a", "v", "o", "r", ",", " ", "r", "e", "f", "o", "r", "m",
      "u", "l", "e", " ", "s", "u", "a", " ", "p", "e", "r", "g", "u", "n",
      "t", "a", " ", "p", "a", "r", "a", " ", "u", "m", " ", "t", "e", "m",
      "a", " ", "l", "e", "g", "a", "l", ".">>
RETRIEVAL_ERROR_MSG ==
    <<"D", "e", "s", "c", "u", "l", "p", "e", ",", " ", "o", "c", "o", "r",
      "r", "e", "u", " ", "u", "m", " ", "e", "r", "r", "o", " ", "a", "o",
      " ", "b", "u", "s", "c", "a", "r", " ", "o", "s", " ", "d", "o", "c",
      "u", "m", "e", "n", "t", "o", "s", ".", " ", "P", "o", "r", " ", "f",
      "a", "v", "o", "r", ",", " ", "t", "e", "n", "t", "e", " ", "n", "o",
      "v", "a", "m", "e", "n", "t", "e", ".">>
GEN_ERROR_MSG ==
    <<"O", "c", "o", "r", "r", "e", "u", " ", "u", "m", " ", "e", "r", "r",
      "o", " ", "n", "o", " ", "p", "r", "o", "c", "e", "s", "s", "a", "m",
      "e", "n", "t", "o", " ", "d", "o", " ", "C", "h", "a", "t", " ", "G",
      "e", "m", "i", "n", "i", " ", "(", "S", "t", "r", "e", "a", "m", ")",
      ".", " ", "E", "r", "r", "o", ":", " ">>

\* stream objects the generation service may hand out
Streams == {"stream_a", "stream_b"}

(***************************************************************************)
(* The query service: state machine of rag_service.py.                     *)
(***************************************************************************)
NoFile == [exists |-> FALSE, ok |-> TRUE, entries |-> <<>>]
GoodIndexFile(n) == [exists |-> TRUE, ok |-> TRUE, entries |-> RowsOf(Corpus(n))]
GoodMapFile(n) == [exists |-> TRUE, ok |-> TRUE, entries |-> Corpus(n)]
CorruptFile == [exists |-> TRUE, ok |-> FALSE, entries |-> <<>>]

\* what an ingestion run or an operator can leave on disk: <<index, map, chunks>>
DiskStates ==
    {<<GoodIndexFile(n), GoodMapFile(n), GoodMapFile(n)>> : n \in 1..MaxDocs}
    \cup {<<NoFile, NoFile, NoFile>>,
          <<NoFile, NoFile, GoodMapFile(1)>>,
          <<GoodIndexFile(1), CorruptFile, GoodMapFile(1)>>,
          <<CorruptFile, GoodMapFile(1), GoodMapFile(1)>>}

NoIndex == [set |-> FALSE, rows |-> <<>>]
NoReq == [fn |-> "", query |-> <<>>, history |-> <<>>]
NoClassOut == [called |-> FALSE, raised |-> FALSE, text |-> <<>>]
NoLoc == [extracted |-> [raised |-> FALSE, text |-> <<>>],
          target_unique_id |-> NoneVal, target_law_number |-> NoneVal,
          search_key |-> NoneVal, context_turns |-> <<>>,
          rewrite_raised |-> FALSE, search_query |-> <<>>,
          hint |-> NoneVal, n_results |-> 0, attempts |-> 0, indices |-> <<>>]
NoGcRet == [returned |-> FALSE, raised |-> FALSE, context |-> <<>>, sources |-> {}]
NoGcArgs == [query |-> <<>>, history |-> <<>>, k |-> 0]
NoGenCall == [sent |-> FALSE, context |-> <<>>, query |-> <<>>, raised |-> FALSE,
              stream |-> ""]
NoResp == [returned |-> FALSE, kind |-> "", value |-> "", detail |-> "",
           sources |-> {}]

\* the ingestion variables while no ingestion runs
IngIdle ==
    /\ ingPc = "off"
    /\ docs = <<>>
    /\ docIdx = 0
    /\ chunks_data = <<>>
    /\ id_counter = 1
    /\ embeddings_list = <<>>
    /\ batchIdx = 0
    /\ attempt = 0
    /\ written = {}

\* the pure functions of data_prep.py while none of them is being called
NoCall == [args |-> <<>>, ret |-> <<>>, done |-> FALSE]
LibIdle ==
    /\ chunkCall = NoCall
    /\ normCall = NoCall
    /\ htmlCall = NoCall

\* the session variables while no Streamlit session runs
AppOff ==
    /\ appPc = "off"
    /\ status = <<>>
    /\ messages = <<>>
    /\ initCalls = <<>>
    /\ lastRun = ""

\* the service variables right after the module is imported (lines 36-38)
SvcImported ==
    /\ client = FALSE
    /\ VECTOR_INDEX = NoIndex
    /\ DOCUMENTS_MAP = <<>>
    /\ pc = "idle"
    /\ req = NoReq
    /\ classOut = NoClassOut
    /\ intent = <<>>
    /\ loc = NoLoc
    /\ gcRet = NoGcRet
    /\ gcArgs = NoGcArgs
    /\ genCall = NoGenCall
    /\ resp = NoResp
    /\ calls = <<>>
    /\ initRet = "none"

Init ==
    /\ SvcImported
    /\ \E d \in DiskStates :
          /\ FAISS_FILE = d[1]
          /\ MAP_FILE = d[2]
          /\ CHUNKS_FILE = d[3]
    /\ IngIdle
    /\ LibIdle
    /\ AppOff

\* initialize_gemini_client, lines 53-63: a client is built only when there is
\* none.  clientOk is whether genai.Client(api_key=...) returns; when it does
\* not, the exception is raised again and client stays None
initialize_gemini_client(clientOk) == client' = (client \/ clientOk)

\* initialize_chromadb, lines 66-95
initialize_chromadb(clientOk) ==
    /\ pc \in {"idle", "done", "raised"}
    /\ IF VECTOR_INDEX.set
       THEN /\ initRet' = "ok"
            /\ UNCHANGED <<VECTOR_INDEX, DOCUMENTS_MAP, client>>
       ELSE IF FAISS_FILE.exists /\ MAP_FILE.exists
       THEN IF ~FAISS_FILE.ok
            THEN /\ initRet' = "raised_corrupt"
                 /\ UNCHANGED <<VECTOR_INDEX, DOCUMENTS_MAP, client>>
            ELSE /\ VECTOR_INDEX' = [set |-> TRUE, rows |-> FAISS_FILE.entries]
                 /\ IF ~MAP_FILE.ok
                    THEN /\ initRet' = "raised_corrupt"
                         /\ UNCHANGED <<DOCUMENTS_MAP, client>>
                    ELSE /\ DOCUMENTS_MAP' = MAP_FILE.entries
                         /\ initialize_gemini_client(clientOk)
                         /\ initRet' = IF client' THEN "ok" ELSE "raised_corrupt"
       ELSE /\ initRet' = "raised_missing"
            /\ UNCHANGED <<VECTOR_INDEX, DOCUMENTS_MAP, client>>
    /\ UNCHANGED <<pc, req, classOut, intent, loc, gcArgs, gcRet, genCall, resp,
                   calls>>
    /\ UNCHANGED <<fileVars, ingVars, libVars>>

\* a caller other than the Streamlit session runs initialize_chromadb
InitializeChromadb(clientOk) ==
    /\ initialize_chromadb(clientOk)
    /\ UNCHANGED appVars

\* a caller runs initialize_gemini_client(api_key) on its own
InitializeGeminiClient(clientOk) ==
    /\ pc \in {"idle", "done", "raised"}
    /\ initialize_gemini_client(clientOk)
    /\ UNCHANGED <<VECTOR_INDEX, DOCUMENTS_MAP, pc, req, classOut, intent, loc,
                   gcArgs, gcRet, genCall, resp, calls, initRet>>
    /\ UNCHANGED <<fileVars, ingVars, libVars, appVars>>

\* a caller enters get_response(user_query, history_for_context), line 405
get_response(q, h) ==
    /\ pc \in {"idle", "done", "raised"}
    /\ pc' = "gr_intent"
    /\ req' = [fn |-> "get_response", query |-> q, history |-> h]
    /\ classOut' = NoClassOut
    /\ intent' = <<>>
    /\ loc' = NoLoc
    /\ gcArgs' = NoGcArgs
    /\ gcRet' = NoGcRet
    /\ genCall' = NoGenCall
    /\ resp' = NoResp
    /\ calls' = <<>>
    /\ UNCHANGED <<client, VECTOR_INDEX, DOCUMENTS_MAP, initRet, fileVars, ingVars,
                   libVars>>

\* a caller other than the Streamlit session enters get_response
CallGetResponse(q, h) ==
    /\ get_response(q, h)
    /\ UNCHANGED appVars

\* a caller enters get_context(query_text, history, k) directly, line 239
CallGetContext(q, h, k) ==
    /\ pc \in {"idle", "done", "raised"}
    /\ pc' = "gc_entry"
    /\ req' = [fn |-> "get_context", query |-> q, history |-> h]
    /\ classOut' = NoClassOut
    /\ intent' = <<>>
    /\ loc' = NoLoc
    /\ gcArgs' = [query |-> q, history |-> h, k |-> k]
    /\ gcRet' = NoGcRet
    /\ genCall' = NoGenCall
    /\ resp' = NoResp
    /\ calls' = <<"get_context">>
    /\ UNCHANGED <<client, VECTOR_INDEX, DOCUMENTS_MAP, initRet, fileVars, ingVars, libVars, appVars>>

\* outcomes of a call through the client: with client None every call raises
\* AttributeError inside the caller's try block
CallRaises == IF client THEN BOOLEAN ELSE {TRUE}

\* get_response, line 411: classify_intent(user_query, history_for_context)
ClassifyIntent(raised, text) ==
    /\ pc = "gr_intent"
    /\ raised \in CallRaises
    /\ classOut' = [called |-> TRUE, raised |-> raised,
                    text |-> IF raised THEN <<>> ELSE text]
    /\ intent' = classify_intent(raised, text)
    /\ calls' = Append(calls, "classify_intent")
    /\ pc' = "gr_branch"
    /\ UNCHANGED <<client, VECTOR_INDEX, DOCUMENTS_MAP, req, loc, gcRet,
                   gcArgs, genCall, resp, initRet, fileVars, ingVars, libVars, appVars>>

\* get_response, lines 413-421: the refusal
RefuseNonLegal ==
    /\ pc = "gr_branch"
    /\ intent = NAO_JURIDICA
    /\ resp' = [returned |-> TRUE, kind |-> "str", value |-> FORA_DE_ESCOPO_MSG,
                detail |-> "", sources |-> {}]
    /\ pc' = "done"
    /\ UNCHANGED <<client, VECTOR_INDEX, DOCUMENTS_MAP, req, classOut, intent,
                   loc, gcArgs, gcRet, genCall, calls, initRet, fileVars, ingVars, libVars, appVars>>

\* GetContextArgs passing an empty history
GetContextArgs_no_history(user_query, history_for_context) ==
    [query |-> user_query, history |-> <<>>, k |-> K_DEFAULT]

\* get_response, line 425: the arguments of the get_context call
GetContextArgs(user_query, history_for_context) ==
    [query |-> user_query, history |-> history_for_context, k |-> K_DEFAULT]

\* EnterGetContext without the intent filter of line 413
EnterGetContext_unfiltered ==
    /\ pc = "gr_branch"
    /\ gcArgs' = [query |-> req.query, history |-> req.history, k |-> K_DEFAULT]
    /\ calls' = Append(calls, "get_context")
    /\ pc' = "gc_entry"
    /\ UNCHANGED <<client, VECTOR_INDEX, DOCUMENTS_MAP, req, classOut, intent,
                   loc, gcRet, genCall, resp, initRet, fileVars, ingVars, libVars, appVars>>

\* get_response, line 425: get_context(user_query, history_for_context, k=10)
EnterGetContext ==
    /\ pc = "gr_branch"
    /\ intent # NAO_JURIDICA
    /\ gcArgs' = GetContextArgs(req.query, req.history)
    /\ calls' = Append(calls, "get_context")
    /\ pc' = "gc_entry"
    /\ UNCHANGED <<client, VECTOR_INDEX, DOCUMENTS_MAP, req, classOut, intent,
                   loc, gcRet, genCall, resp, initRet, fileVars, ingVars, libVars, appVars>>

\* where control goes when get_context returns
AfterGetContext == IF req.fn = "get_context" THEN "done" ELSE "gr_context"

EmptyGcRet == [returned |-> TRUE, raised |-> FALSE, context |-> <<>>,
               sources |-> {}]
\* an exception leaves a try block of get_context: caught, or it escapes
GcOnException(exc) ==
    IF GetContextCatches(exc) THEN EmptyGcRet
    ELSE [returned |-> FALSE, raised |-> TRUE, context |-> <<>>, sources |-> {}]
AfterException(exc) == IF GetContextCatches(exc) THEN AfterGetContext ELSE "raised"

\* get_context, lines 243-244
GcIndexNone ==
    /\ pc = "gc_entry"
    /\ ~VECTOR_INDEX.set
    /\ gcRet' = EmptyGcRet
    /\ pc' = AfterGetContext
    /\ UNCHANGED <<client, VECTOR_INDEX, DOCUMENTS_MAP, req, classOut, intent,
                   loc, gcArgs, genCall, resp, calls, initRet, fileVars, ingVars, libVars, appVars>>

\* get_context, lines 253-296: extract_unique_id (one LLM call), the regex
\* fallback, the forced scan of the map and the early return
GcForcedLookup(raised, text) ==
    /\ pc = "gc_entry"
    /\ VECTOR_INDEX.set
    /\ raised \in CallRaises
    /\ LET target_unique_id == extract_unique_id(raised, text)
           target_law_number ==
               IF target_unique_id.isNone
               THEN extract_law_number_from_query(gcArgs.query) ELSE NoneVal
           search_key == IF Truthy(target_unique_id) THEN target_unique_id
                         ELSE target_law_number
           forced_context_parts ==
               IF Truthy(search_key)
               THEN ForcedParts(DOCUMENTS_MAP, target_unique_id, target_law_number)
               ELSE <<>>
       IN /\ loc' = [loc EXCEPT !.extracted = [raised |-> raised,
                                                text |-> IF raised THEN <<>> ELSE text],
                                !.target_unique_id = target_unique_id,
                                !.target_law_number = target_law_number,
                                !.search_key = search_key]
          /\ calls' = IF target_unique_id.isNone
                       THEN calls \o <<"extract_unique_id",
                                       "extract_law_number_from_query">>
                       ELSE Append(calls, "extract_unique_id")
          /\ IF forced_context_parts # <<>>
             THEN /\ gcRet' = [returned |-> TRUE, raised |-> FALSE,
                               context |-> JoinParts(forced_context_parts),
                               sources |-> ForcedSources(DOCUMENTS_MAP,
                                              target_unique_id, target_law_number)]
                  /\ pc' = AfterGetContext
             ELSE /\ gcRet' = gcRet
                  /\ pc' = "gc_rewrite"
    /\ UNCHANGED <<client, VECTOR_INDEX, DOCUMENTS_MAP, req, classOut, intent,
                   gcArgs, genCall, resp, initRet, fileVars, ingVars, libVars, appVars>>

\* get_context, lines 304-318: rewrite_query_with_context (one LLM call) and
\* the construction of final_search_query and n_results_faiss
GcRewrite(raised) ==
    /\ pc = "gc_rewrite"
    /\ raised \in CallRaises
    /\ loc' = [loc EXCEPT
          !.context_turns = RewriteContextTurns(gcArgs.history),
          !.rewrite_raised = raised,
          !.search_query = rewrite_query_with_context(raised, REWRITE_TEXT, gcArgs.query),
          !.hint = IF Truthy(loc.search_key) THEN loc.search_key ELSE NoneVal,
          !.n_results = N_RESULTS_FAISS]
    /\ calls' = Append(calls, "rewrite_query")
    /\ pc' = "gc_embed"
    /\ UNCHANGED <<client, VECTOR_INDEX, DOCUMENTS_MAP, req, classOut, intent,
                   gcRet, gcArgs, genCall, resp, initRet, fileVars, ingVars, libVars, appVars>>

\* get_context, lines 323-333: the embedding of final_search_query
GcEmbed(raised) ==
    /\ pc = "gc_embed"
    /\ raised \in CallRaises
    /\ calls' = Append(calls, "embed_content")
    /\ IF raised
       THEN /\ gcRet' = GcOnException(IF client THEN "APIError" ELSE "AttributeError")
            /\ pc' = AfterException(IF client THEN "APIError" ELSE "AttributeError")
       ELSE /\ gcRet' = gcRet
            /\ pc' = "gc_search"
    /\ UNCHANGED <<client, VECTOR_INDEX, DOCUMENTS_MAP, req, classOut, intent,
                   loc, gcArgs, genCall, resp, initRet, fileVars, ingVars, libVars, appVars>>

\* _query_faiss, lines 100-112: one attempt that raises; tenacity tries again
\* until stop_after_attempt(3), then raises RetryError into get_context
GcSearchFails ==
    /\ pc = "gc_search"
    /\ loc.attempts < SEARCH_ATTEMPTS
    /\ calls' = Append(calls, "faiss_search")
    /\ loc' = [loc EXCEPT !.attempts = loc.attempts + 1]
    /\ IF loc.attempts + 1 >= SEARCH_ATTEMPTS
       THEN /\ gcRet' = GcOnException("RetryError")
            /\ pc' = AfterException("RetryError")
       ELSE /\ gcRet' = gcRet
            /\ pc' = "gc_search"
    /\ UNCHANGED <<client, VECTOR_INDEX, DOCUMENTS_MAP, req, classOut, intent,
                   gcArgs, genCall, resp, initRet, fileVars, ingVars, libVars, appVars>>

\* _query_faiss, lines 100-112: one attempt that returns, and get_context,
\* lines 337-358: the translation of the returned rows into context
GcSearchReturns(indices) ==
    /\ pc = "gc_search"
    /\ loc.attempts < SEARCH_ATTEMPTS
    /\ indices \in SearchResults(Len(VECTOR_INDEX.rows), loc.n_results)
    /\ calls' = Append(calls, "faiss_search")
    /\ loc' = [loc EXCEPT !.attempts = loc.attempts + 1, !.indices = indices]
    /\ IF TranslationRaises(DOCUMENTS_MAP, indices)
       THEN /\ gcRet' = GcOnException("IndexError")
            /\ pc' = AfterException("IndexError")
       ELSE /\ gcRet' = [returned |-> TRUE, raised |-> FALSE,
                         context |-> JoinParts(VectorParts(DOCUMENTS_MAP, indices)),
                         sources |-> VectorSources(DOCUMENTS_MAP, indices)]
            /\ pc' = AfterGetContext
    /\ UNCHANGED <<client, VECTOR_INDEX, DOCUMENTS_MAP, req, classOut, intent,
                   gcArgs, genCall, resp, initRet, fileVars, ingVars, libVars, appVars>>

\* get_response, lines 427-428: "if not context"
GrNoContext ==
    /\ pc = "gr_context"
    /\ gcRet.context = <<>>
    /\ resp' = [returned |-> TRUE, kind |-> "str", value |-> RETRIEVAL_ERROR_MSG,
                detail |-> "", sources |-> {}]
    /\ pc' = "done"
    /\ UNCHANGED <<client, VECTOR_INDEX, DOCUMENTS_MAP, req, classOut, intent,
                   loc, gcArgs, gcRet, genCall, calls, initRet, fileVars, ingVars, libVars, appVars>>

\* get_response, line 461 and line 465: what is returned after the generation
\* call, given what get_context had returned
SourcesReturned_empty(cited_sources) == {}
SourcesReturned(cited_sources) == cited_sources
StreamReturned(response_stream) == response_stream

\* get_response, lines 431-442: the context injected into rag_prompt
PromptContext(context) == context

\* GrGenerate without the "if not context" return of lines 427-428
GrGenerate_unguarded(raised, stream) ==
    /\ pc = "gr_context"
    /\ raised \in CallRaises
    /\ genCall' = [sent |-> TRUE, context |-> gcRet.context,
                   query |-> req.query, raised |-> raised,
                   stream |-> IF raised THEN "" ELSE stream]
    /\ calls' = Append(calls, "generate_content_stream")
    /\ resp' = IF raised
               THEN [returned |-> TRUE, kind |-> "str", value |-> GEN_ERROR_MSG,
                     detail |-> "APIError", sources |-> gcRet.sources]
               ELSE [returned |-> TRUE, kind |-> "stream", value |-> stream,
                     detail |-> "", sources |-> gcRet.sources]
    /\ pc' = "done"
    /\ UNCHANGED <<client, VECTOR_INDEX, DOCUMENTS_MAP, req, classOut, intent,
                   loc, gcArgs, gcRet, initRet, fileVars, ingVars, libVars, appVars>>

\* get_response, lines 431-465: the prompt and the one generation call
GrGenerate(raised, stream) ==
    /\ pc = "gr_context"
    /\ gcRet.context # <<>>
    /\ raised \in CallRaises
    /\ genCall' = [sent |-> TRUE, context |-> PromptContext(gcRet.context),
                   query |-> req.query, raised |-> raised,
                   stream |-> IF raised THEN "" ELSE stream]
    /\ calls' = Append(calls, "generate_content_stream")
    /\ resp' = IF raised
               THEN [returned |-> TRUE, kind |-> "str", value |-> GEN_ERROR_MSG,
                     detail |-> IF client THEN "APIError" ELSE "AttributeError",
                     sources |-> SourcesReturned(gcRet.sources)]
               ELSE [returned |-> TRUE, kind |-> "stream",
                     value |-> StreamReturned(stream), detail |-> "",
                     sources |-> SourcesReturned(gcRet.sources)]
    /\ pc' = "done"
    /\ UNCHANGED <<client, VECTOR_INDEX, DOCUMENTS_MAP, req, classOut, intent,
                   loc, gcArgs, gcRet, initRet, fileVars, ingVars, libVars, appVars>>

Next ==
    \/ \E clientOk \in BOOLEAN : InitializeChromadb(clientOk)
    \/ \E clientOk \in BOOLEAN : InitializeGeminiClient(clientOk)
    \/ \E q \in Queries : \E h \in Histories(q) : CallGetResponse(q, h)
    \/ \E q \in Queries : \E h \in Histories(q) : \E k \in DirectKs :
          CallGetContext(q, h, k)
    \/ \E raised \in BOOLEAN : \E text \in ClassifyTexts : ClassifyIntent(raised, text)
    \/ RefuseNonLegal
    \/ EnterGetContext
    \/ GcIndexNone
    \/ \E raised \in BOOLEAN : \E text \in ExtractTexts : GcForcedLookup(raised, text)
    \/ \E raised \in BOOLEAN : GcRewrite(raised)
    \/ \E raised \in BOOLEAN : GcEmbed(raised)
    \/ GcSearchFails
    \/ \E indices \in SearchResults(Len(VECTOR_INDEX.rows), N_RESULTS_FAISS) :
          GcSearchReturns(indices)
    \/ GrNoContext
    \/ \E raised \in BOOLEAN : \E stream \in Streams : GrGenerate(raised, stream)

Spec == Init /\ [][Next]_vars

(***************************************************************************)
(* Properties of the query service.                                        *)
(***************************************************************************)
Count(seq, x) == Cardinality({i \in 1..Len(seq) : seq[i] = x})
Occurs(seq, x) == \E i \in 1..Len(seq) : seq[i] = x
Last(seq) == seq[Len(seq)]
\* the calls get_context makes to external collaborators after the lookup
VectorStageCalls == {"rewrite_query", "embed_content", "faiss_search"}
NoVectorStageCall == \A i \in 1..Len(calls) : calls[i] \notin VectorStageCalls
\* the forced lookup of the running call has been performed
LookupDone == Occurs(calls, "extract_unique_id")
\* the extracted identifier is the ID_UNICO of an entry of the map
KeyIsAnId ==
    /\ LookupDone
    /\ Truthy(loc.search_key)
    /\ \E i \in 1..Len(DOCUMENTS_MAP) : DOCUMENTS_MAP[i].ID_UNICO = loc.search_key.val
\* the entries whose ID_UNICO is the extracted identifier
KeyEntries == {i \in 1..Len(DOCUMENTS_MAP) :
                  DOCUMENTS_MAP[i].ID_UNICO = loc.search_key.val}

\* C1: when the identifier extracted from the query is the ID_UNICO of an entry
\* of the document map, get_context has returned right after the lookup, with a
\* non-empty context whose parts and sources all come from entries with that
\* ID_UNICO, and no rewrite, embedding or index search was called.
C1_ForcedLookup ==
    KeyIsAnId =>
        /\ gcRet.returned
        /\ pc \notin {"gc_rewrite", "gc_embed", "gc_search", "raised"}
        /\ gcRet.context # <<>>
        /\ \A j \in 1..Len(gcRet.context) :
              ~gcRet.context[j].sep =>
                  \E i \in KeyEntries :
                      /\ gcRet.context[j].text = DOCUMENTS_MAP[i].text
                      /\ gcRet.context[j].source = DOCUMENTS_MAP[i].fonte
        /\ gcRet.sources = {DOCUMENTS_MAP[i].fonte : i \in KeyEntries}
        /\ NoVectorStageCall

\* C1 witness: an extracted full identifier matched an entry of a map that
\* also holds entries of other identifiers, and get_context returned
C1_Witness ==
    /\ KeyIsAnId
    /\ gcRet.returned
    /\ loc.target_unique_id = Some(ID_LC_715_2018)
    /\ Len(PartsOf(gcRet.context)) = 1
    /\ Len(DOCUMENTS_MAP) = 3

\* C2 (as claimed): when neither extraction yields an identifier and the index
\* is initialised, the vector search returns at most k context entries and at
\* most k sources, k being the argument of the caller.
C2_AtMostK ==
    (/\ gcRet.returned
     /\ LookupDone
     /\ loc.search_key.isNone
     /\ loc.indices # <<>>)
        => /\ Len(PartsOf(gcRet.context)) <= gcArgs.k
           /\ Cardinality(gcRet.sources) <= gcArgs.k

\* the search of the running call failed on every attempt
SearchExhausted == loc.attempts = SEARCH_ATTEMPTS /\ loc.indices = <<>>
\* the embedding call of the running call failed
EmbedFailed == calls # <<>> /\ Last(calls) = "embed_content" /\ pc # "gc_search"
\* get_context was entered with no index loaded
EnteredWithoutIndex ==
    Occurs(calls, "get_context") /\ ~VECTOR_INDEX.set /\ pc # "gc_entry"

\* C3: get_context never raises; with the index uninitialised it returns
\* ("", set()) without any external call; after a failed embedding call or
\* three failed search attempts it returns ("", set()); never more than three
\* search attempts are made.
C3_EmptyOnFailure ==
    /\ pc # "raised" /\ ~gcRet.raised
    /\ Count(calls, "faiss_search") <= SEARCH_ATTEMPTS
    /\ EnteredWithoutIndex =>
          /\ gcRet = EmptyGcRet
          /\ ~LookupDone /\ NoVectorStageCall
    /\ EmbedFailed => gcRet = EmptyGcRet
    /\ SearchExhausted => gcRet = EmptyGcRet /\ Count(calls, "faiss_search") = 3

\* C3 witness: the third search attempt failed and get_context returned
C3_Witness ==
    /\ SearchExhausted
    /\ gcRet.returned
    /\ Count(calls, "faiss_search") = 3

\* C5: a query classified NAO_JURIDICA is answered with the fixed refusal and
\* an empty source set, and neither get_context nor the generation service
\* (nor any call get_context makes) is called for it.
C5_Refusal ==
    intent = NAO_JURIDICA =>
        /\ pc \in {"gr_branch", "done"}
        /\ calls = <<"classify_intent">>
        /\ ~genCall.sent
        /\ pc = "done" =>
              /\ resp.returned
              /\ resp.kind = "str"
              /\ resp.value = FORA_DE_ESCOPO_MSG
              /\ resp.sources = {}

\* C5 witness: get_response returned for a query classified NAO_JURIDICA
C5_Witness == intent = NAO_JURIDICA /\ pc = "done" /\ resp.returned

\* C6: when the query is JURIDICA and get_context returned an empty context,
\* get_response returns the fixed retrieval-error string with no sources and
\* the generation service is never called.
C6_NoContext ==
    (/\ req.fn = "get_response"
     /\ intent = JURIDICA
     /\ gcRet.returned
     /\ gcRet.context = <<>>)
        => /\ ~genCall.sent
           /\ ~Occurs(calls, "generate_content_stream")
           /\ pc \in {"gr_context", "done"}
           /\ pc = "done" =>
                 /\ resp.returned
                 /\ resp.kind = "str"
                 /\ resp.value = RETRIEVAL_ERROR_MSG
                 /\ resp.sources = {}

\* C6 witness: get_response returned after an empty retrieval that did reach
\* the vector search
C6_Witness ==
    /\ req.fn = "get_response"
    /\ intent = JURIDICA
    /\ gcRet.returned /\ gcRet.context = <<>>
    /\ SearchExhausted
    /\ resp.returned

\* C7: when the generation call fails after a non-empty retrieval,
\* get_response returns the error string (not a stream) with exactly the
\* sources get_context returned, after exactly one generation attempt.
C7_GenerationFailure ==
    (genCall.sent /\ genCall.raised) =>
        /\ gcRet.context # <<>>
        /\ resp.returned
        /\ resp.kind = "str"
        /\ resp.value = GEN_ERROR_MSG
        /\ resp.sources = gcRet.sources
        /\ Count(calls, "generate_content_stream") = 1

\* C7 witness: the generation call failed with a working client and two
\* retrieved sources
C7_Witness ==
    /\ genCall.sent /\ genCall.raised
    /\ client
    /\ Cardinality(gcRet.sources) = 2
    /\ resp.returned

\* the calls of get_response itself, in order
OwnCalls == SelectSeq(calls, LAMBDA c :
                c \in {"classify_intent", "get_context", "generate_content_stream"})

\* C8: on the success path get_response classified, retrieved and generated in
\* that order, each once, called get_context with (query, history, k=10), put
\* the retrieved context into the prompt, and returned the stream object of
\* the generation service with the sources of get_context.
C8_SuccessPath ==
    (resp.returned /\ resp.kind = "stream") =>
        /\ OwnCalls = <<"classify_intent", "get_context", "generate_content_stream">>
        /\ intent = JURIDICA
        /\ gcArgs = [query |-> req.query, history |-> req.history, k |-> 10]
        /\ gcRet.returned /\ gcRet.context # <<>>
        /\ genCall.sent /\ ~genCall.raised
        /\ genCall.context = gcRet.context
        /\ genCall.query = req.query
        /\ resp.value = genCall.stream
        /\ resp.value \in Streams
        /\ resp.sources = gcRet.sources

\* C8 witness: a stream was returned for a question asked with a history of
\* several turns, after a vector search
C8_Witness ==
    /\ resp.returned /\ resp.kind = "stream"
    /\ Len(req.history) > 1
    /\ Occurs(calls, "faiss_search")

\* C9: classify_intent returns NAO_JURIDICA exactly when the classifier call
\* succeeded and its trimmed, upper-cased text is NAO_JURIDICA, and JURIDICA
\* otherwise; a failed classifier call never leads to the refusal.
C9_FailOpen ==
    classOut.called =>
        /\ intent \in {JURIDICA, NAO_JURIDICA}
        /\ intent = NAO_JURIDICA <=>
              (~classOut.raised /\ Upper(Strip(classOut.text)) = NAO_JURIDICA)
        /\ classOut.raised =>
              /\ intent = JURIDICA
              /\ ~(resp.kind = "str" /\ resp.value = FORA_DE_ESCOPO_MSG)
        /\ classOut.text \in {NAO_JURIDICA \o <<".">>, <<>>,
                              <<"N","A","O"," ","J","U","R","I","D","I","C","A">>}
              => intent = JURIDICA

\* C9 witness: the classifier call raised and the query was treated as legal
C9_Witness ==
    /\ classOut.called /\ classOut.raised
    /\ client
    /\ Occurs(calls, "get_context")

(***************************************************************************)
(* normalize_law_id (data_prep.py, lines 65-103).  File names are          *)
(* sequences of characters.                                                *)
(***************************************************************************)
\* str.lower() of a capital sigma at position i: the final form after a cased
\* letter when no cased letter follows, skipped characters aside
FinalSigma(s, i) ==
    LET before == {j \in 1..(i - 1) : s[j] \notin CASE_IGNORABLE}
        after == {j \in (i + 1)..Len(s) : s[j] \notin CASE_IGNORABLE}
    IN /\ before # {} /\ s[SetMax(before)] \in CASED
       /\ after # {} => s[SetMin(after)] \notin CASED

\* str.lower() on the character at position i: the characters it becomes
LowerChar(s, i) ==
    IF s[i] = "Σ" THEN IF FinalSigma(s, i) THEN <<"ς">> ELSE <<"σ">>
    ELSE IF s[i] \in DOMAIN LowerOf THEN LowerOf[s[i]]
    ELSE <<s[i]>>

RECURSIVE LowerFrom(_, _)
LowerFrom(s, i) ==
    IF i > Len(s) THEN <<>> ELSE LowerChar(s, i) \o LowerFrom(s, i + 1)

\* str.lower()
Lower(s) == LowerFrom(s, 1)

\* the word w occurs in s at position p
MatchAt(s, p, w) == p + Len(w) - 1 <= Len(s) /\ SubSeq(s, p, p + Len(w) - 1) = w

\* \s* from position p: the position of the first character that is no blank
SkipSpaces(s, p) ==
    LET rest == {i \in p..Len(s) : ~IsSpace(s[i])}
    IN IF rest = {} THEN Len(s) + 1 ELSE SetMin(rest)

W_COMPLEMENTAR == <<"c","o","m","p","l","e","m","e","n","t","a","r">>
W_DECRETO == <<"d","e","c","r","e","t","o">>
W_LEI == <<"l","e","i">>
W_PROMULGADA == <<"p","r","o","m","u","l","g","a","d","a">>
W_ORDINARIA == <<"o","r","d","i","n","á","r","i","a">>

\* re.search(r'lc\s*nº?', name_lower), line 74
LcMarkerSearch(name_lower) ==
    \E p \in 1..Len(name_lower) :
        /\ MatchAt(name_lower, p, <<"l","c">>)
        /\ LET q == SkipSpaces(name_lower, p + 2)
           IN q <= Len(name_lower) /\ name_lower[q] = "n"

TYPE_LC == <<"L","C">>
TYPE_DECRETO == <<"D","E","C","R","E","T","O">>
TYPE_LEI == <<"L","E","I">>
TYPE_DOC == <<"D","O","C">>

\* the type test with 'decreto' looked for first
LawType_decreto_first(name_lower) ==
    IF Contains(name_lower, W_DECRETO) THEN TYPE_DECRETO
    ELSE IF Contains(name_lower, W_COMPLEMENTAR) \/ LcMarkerSearch(name_lower)
    THEN TYPE_LC
    ELSE IF \/ Contains(name_lower, W_LEI)
            \/ Contains(name_lower, W_PROMULGADA)
            \/ Contains(name_lower, W_ORDINARIA)
    THEN TYPE_LEI
    ELSE TYPE_DOC

\* lines 74-81: law_type
LawType(name_lower) ==
    IF Contains(name_lower, W_COMPLEMENTAR) \/ LcMarkerSearch(name_lower)
    THEN TYPE_LC
    ELSE IF Contains(name_lower, W_DECRETO) THEN TYPE_DECRETO
    ELSE IF \/ Contains(name_lower, W_LEI)
            \/ Contains(name_lower, W_PROMULGADA)
            \/ Contains(name_lower, W_ORDINARIA)
    THEN TYPE_LEI
    ELSE TYPE_DOC

\* the alternatives of (nº|n°|no|numero), in the order the regex tries them
NumMarkers == << <<"n","º">>, <<"n","°">>, <<"n","o">>,
                 <<"n","u","m","e","r","o">> >>

\* \s*([\d\.]+) from position p: where group 2 starts, 0 when it does not match
NumGroup2After(s, p) ==
    LET g == SkipSpaces(s, p)
    IN IF g <= Len(s) /\ IsDigitOrDot(s[g]) THEN g ELSE 0

\* (nº|n°|no|numero)?\s*([\d\.]+) tried at position p: the start of group 2
NumGroup2At(s, p) ==
    LET via == {m \in 1..Len(NumMarkers) :
                   /\ MatchAt(s, p, NumMarkers[m])
                   /\ NumGroup2After(s, p + Len(NumMarkers[m])) # 0}
    IN IF via # {}
       THEN NumGroup2After(s, p + Len(NumMarkers[SetMin(via)]))
       ELSE NumGroup2After(s, p)

\* re.search, line 85: group 2 of the leftmost match, None when no match
NumberSearch(name_lower) ==
    LET starts == {p \in 1..Len(name_lower) : NumGroup2At(name_lower, p) # 0}
    IN IF starts = {} THEN NoneVal
       ELSE Some(RunFrom(name_lower, NumGroup2At(name_lower, SetMin(starts))))

\* the maximal run of \d starting at position g
DigitRunFrom(s, g) ==
    LET stops == {i \in g..Len(s) : ~IsDigit(s[i])}
    IN SubSeq(s, g, IF stops = {} THEN Len(s) ELSE SetMin(stops) - 1)

\* re.search(r'(\d{4,})', name_lower), line 90
FourDigitSearch(name_lower) ==
    LET starts == {p \in 1..(Len(name_lower) - 3) :
                      \A j \in 0..3 : IsDigit(name_lower[p + j])}
    IN IF starts = {} THEN NoneVal
       ELSE Some(DigitRunFrom(name_lower, SetMin(starts)))

\* lines 85-91: law_number
LawNumber(name_lower) ==
    LET match_num == NumberSearch(name_lower)
        match_num_fallback == FourDigitSearch(name_lower)
    IN IF Truthy(match_num)
       THEN SelectSeq(match_num.val, IsDigit)   \* re.sub(r'[^\d]', '', ...)
       ELSE IF ~match_num_fallback.isNone
       THEN Strip(match_num_fallback.val)
       ELSE <<"0","0","0","0">>

Digits == <<"0","1","2","3","4","5","6","7","8","9">>
\* int(c) for one digit
DigitVal(c) == DigitOf[c]

\* int(a) for a string of digits
RECURSIVE ToInt(_)
ToInt(a) ==
    IF a = <<>> THEN 0
    ELSE 10 * ToInt(SubSeq(a, 1, Len(a) - 1)) + DigitVal(a[Len(a)])

\* str(n) for n >= 0
RECURSIVE IntToChars(_)
IntToChars(n) ==
    IF n < 10 THEN <<Digits[n + 1]>>
    ELSE IntToChars(n \div 10) \o <<Digits[(n % 10) + 1]>>

\* (19\d{2}|20\d{2}) matches at position p
YearAt(s, p) ==
    /\ p + 3 <= Len(s)
    /\ \/ s[p] = "1" /\ s[p + 1] = "9"
       \/ s[p] = "2" /\ s[p + 1] = "0"
    /\ IsDigit(s[p + 2])
    /\ IsDigit(s[p + 3])

\* re.findall(r'(19\d{2}|20\d{2})', name_lower), line 95, scanning from p:
\* the matches do not overlap
RECURSIVE FindYears(_, _)
FindYears(s, p) ==
    IF p > Len(s) THEN <<>>
    ELSE IF YearAt(s, p)
    THEN <<ToInt(SubSeq(s, p, p + 3))>> \o FindYears(s, p + 4)
    ELSE FindYears(s, p + 1)

\* line 98: law_year
LawYear(name_lower) ==
    LET anos == FindYears(name_lower, 1)
    IN IF anos # <<>> THEN SetMax({anos[i] : i \in 1..Len(anos)}) ELSE 0

\* lines 71-103
normalize_law_id(file_name) ==
    LET name_lower == Lower(file_name)
        law_type == LawType(name_lower)
        law_number == LawNumber(name_lower)
        law_year == LawYear(name_lower)
    IN [unique_id |-> law_type \o <<"_">> \o law_number \o <<"_">>
                         \o IntToChars(law_year),
        law_year |-> law_year]

\* the file names of the corpus, character by character
FonteChars(fonte) ==
    IF fonte = "LEI COMPLEMENTAR 715 2018.html"
    THEN <<"L","E","I"," ","C","O","M","P","L","E","M","E","N","T","A","R"," ",
           "7","1","5"," ","2","0","1","8",".","h","t","m","l">>
    ELSE IF fonte = "LEI 17150 2019.html"
    THEN <<"L","E","I"," ","1","7","1","5","0"," ","2","0","1","9",
           ".","h","t","m","l">>
    ELSE <<"D","E","C","R","E","T","O"," ","4","5","6"," ","2","0","2","1",
           ".","h","t","m","l">>

(***************************************************************************)
(* The ingestion run: state machine of data_prep.py.                       *)
(***************************************************************************)
\* BATCH_SIZE of processar_e_salvar_leis
BATCH_SIZE == 100
\* stop_after_attempt(5) of generate_embeddings_batch
EMBED_ATTEMPTS == 5
\* number of .html documents of a run
MaxIngestDocs == 2

\* chunk counts of a document: none (empty text), a few, around a batch
DocSizes == {0, 1, BATCH_SIZE - 1, BATCH_SIZE, BATCH_SIZE + 1}

\* what phase 1 obtains for the d-th document: its file name, the result of
\* normalize_law_id, and the chunks of chunk_text_optimized, each with the
\* article token extract_article_id finds in it (<<>> when it finds none)
Document(d, n) ==
    LET nome_arquivo == IF d % 2 = 1 THEN "LEI COMPLEMENTAR 715 2018.html"
                        ELSE "DECRETO 456 2021.html"
        normalized == normalize_law_id(FonteChars(nome_arquivo))
    IN
    [fonte |-> nome_arquivo,
     unique_id |-> normalized.unique_id,
     ano_publicacao |-> normalized.law_year,
     chunks |-> [i \in 1..n |->
                    [text |-> <<d, i>>,
                     art |-> IF i % 2 = 0 THEN <<"A","R","T","_","4">> ELSE <<>>]]]

DocumentSets ==
    UNION {{[d \in 1..m |-> Document(d, sizes[d])] : sizes \in [1..m -> DocSizes]}
              : m \in 0..MaxIngestDocs}

\* artifacts of an earlier run
OldChunk == [id |-> <<"doc", 1>>, text |-> <<0, 1>>, fonte |-> "old.html",
             ano_publicacao |-> 0, chunk_index |-> 0,
             ID_UNICO |-> <<"D","O","C","_","0","0","0","0","_","0">>]
OldDisk ==
    { <<NoFile, NoFile, NoFile>>,
      <<[exists |-> TRUE, ok |-> TRUE, entries |-> <<Vec(OldChunk.text)>>],
        [exists |-> TRUE, ok |-> TRUE, entries |-> <<OldChunk>>],
        [exists |-> TRUE, ok |-> TRUE, entries |-> <<OldChunk>>]>> }

InitIngest ==
    /\ SvcImported
    /\ \E d \in OldDisk :
          /\ FAISS_FILE = d[1]
          /\ MAP_FILE = d[2]
          /\ CHUNKS_FILE = d[3]
    /\ ingPc = "start"
    /\ docs \in DocumentSets
    /\ docIdx = 0
    /\ chunks_data = <<>>
    /\ id_counter = 1
    /\ embeddings_list = <<>>
    /\ batchIdx = 0
    /\ attempt = 0
    /\ written = {}
    /\ LibIdle
    /\ AppOff

\* lines 19-44: the key check and the client construction; sys.exit(1) on failure
StartScript(keyPresent, clientOk) ==
    /\ ingPc = "start"
    /\ ingPc' = IF keyPresent /\ clientOk THEN "cleanup" ELSE "exited"
    /\ UNCHANGED <<docs, docIdx, chunks_data, id_counter, embeddings_list,
                   batchIdx, attempt, written, fileVars, svcVars, libVars, appVars>>

\* only the chunk corpus of the previous run is removed
Cleanup_chunks_only ==
    /\ ingPc = "cleanup"
    /\ CHUNKS_FILE' = NoFile
    /\ ingPc' = "phase1"
    /\ UNCHANGED <<docs, docIdx, chunks_data, id_counter, embeddings_list,
                   batchIdx, attempt, written, FAISS_FILE, MAP_FILE, svcVars,
                   libVars, appVars>>

\* lines 348-360: the artifacts of the previous run are removed
Cleanup ==
    /\ ingPc = "cleanup"
    /\ CHUNKS_FILE' = NoFile
    /\ FAISS_FILE' = NoFile
    /\ MAP_FILE' = NoFile
    /\ ingPc' = "phase1"
    /\ UNCHANGED <<docs, docIdx, chunks_data, id_counter, embeddings_list,
                   batchIdx, attempt, written, svcVars, libVars, appVars>>

\* extract_article_id, lines 118-129, given the token the pattern found
extract_article_id(chunk, base_id) ==
    IF chunk.art # <<>> THEN base_id \o <<"_">> \o chunk.art ELSE base_id

\* lines 254-270: the records appended for the chunks of one document
ChunkRecords(doc, first_id) ==
    [i \in 1..Len(doc.chunks) |->
        [id |-> <<"doc", first_id + i - 1>>,
         text |-> doc.chunks[i].text,
         fonte |-> doc.fonte,
         ano_publicacao |-> doc.ano_publicacao,
         chunk_index |-> i - 1,
         ID_UNICO |-> extract_article_id(doc.chunks[i], doc.unique_id)]]

\* a document without text uses up a chunk number
ProcessDocument_counts_empty ==
    /\ ingPc = "phase1"
    /\ docIdx < Len(docs)
    /\ LET doc == docs[docIdx + 1]
       IN /\ chunks_data' = chunks_data \o ChunkRecords(doc, id_counter)
          /\ id_counter' = id_counter +
                (IF doc.chunks = <<>> THEN 1 ELSE Len(doc.chunks))
    /\ docIdx' = docIdx + 1
    /\ UNCHANGED <<ingPc, docs, embeddings_list, batchIdx, attempt, written,
                   fileVars, svcVars, libVars, appVars>>

\* lines 238-270: one document of the walk (a document whose extracted text is
\* empty has no chunks and is skipped)
ProcessDocument ==
    /\ ingPc = "phase1"
    /\ docIdx < Len(docs)
    /\ LET doc == docs[docIdx + 1]
       IN /\ chunks_data' = chunks_data \o ChunkRecords(doc, id_counter)
          /\ id_counter' = id_counter + Len(doc.chunks)
    /\ docIdx' = docIdx + 1
    /\ UNCHANGED <<ingPc, docs, embeddings_list, batchIdx, attempt, written,
                   fileVars, svcVars, libVars, appVars>>

\* lines 272-284: the chunk corpus is written; with no chunk the run ends
WriteChunks ==
    /\ ingPc = "phase1"
    /\ docIdx = Len(docs)
    /\ CHUNKS_FILE' = [exists |-> TRUE, ok |-> TRUE, entries |-> chunks_data]
    /\ written' = written \cup {"chunks"}
    /\ ingPc' = IF chunks_data = <<>> THEN "done_empty" ELSE "embed"
    /\ UNCHANGED <<docs, docIdx, chunks_data, id_counter, embeddings_list,
                   batchIdx, attempt, FAISS_FILE, MAP_FILE, svcVars, libVars, appVars>>

\* line 286
Texts(chunks) == [i \in 1..Len(chunks) |-> chunks[i].text]

\* batch_list, lines 47-51: the number of slices and the j-th slice (0-based)
NumBatches(l, n) == (l + n - 1) \div n
batch_list_overlap(iterable, n, j) ==
    SubSeq(iterable, (IF j = 0 THEN 1 ELSE j * n), Min(j * n + n, Len(iterable)))
batch_list(iterable, n, j) ==
    SubSeq(iterable, j * n + 1, Min(j * n + n, Len(iterable)))

\* the embedding service: one vector per input text, in input order
EmbedContent(texts) == [i \in 1..Len(texts) |-> Vec(texts[i])]

\* the attempts of a batch go on counting from those of the batch before
BatchSucceeds_shared_counter ==
    /\ ingPc = "embed"
    /\ batchIdx < NumBatches(Len(chunks_data), BATCH_SIZE)
    /\ attempt < EMBED_ATTEMPTS
    /\ embeddings_list' = embeddings_list \o
          EmbedContent(batch_list(Texts(chunks_data), BATCH_SIZE, batchIdx))
    /\ batchIdx' = batchIdx + 1
    /\ attempt' = attempt
    /\ UNCHANGED <<ingPc, docs, docIdx, chunks_data, id_counter, written,
                   fileVars, svcVars, libVars, appVars>>

\* lines 298-304: a batch is embedded at some attempt and its vectors appended
BatchSucceeds ==
    /\ ingPc = "embed"
    /\ batchIdx < NumBatches(Len(chunks_data), BATCH_SIZE)
    /\ attempt < EMBED_ATTEMPTS
    /\ embeddings_list' = embeddings_list \o
          EmbedContent(batch_list(Texts(chunks_data), BATCH_SIZE, batchIdx))
    /\ batchIdx' = batchIdx + 1
    /\ attempt' = 0
    /\ UNCHANGED <<ingPc, docs, docIdx, chunks_data, id_counter, written,
                   fileVars, svcVars, libVars, appVars>>

\* line 308: "except APIError" is the only handler around the batch loop
IngestCatches(exc) == exc = "APIError"

\* where the run goes when generate_embeddings_batch gives up: tenacity raises
\* RetryError, which the handler of line 308 does not catch
OnBatchExhausted_continue(exc) == "build"
OnBatchExhausted(exc) == IF IngestCatches(exc) THEN "aborted" ELSE "crashed"

\* lines 53-62: an attempt of generate_embeddings_batch raises; tenacity tries
\* again until stop_after_attempt(5)
BatchAttemptFails ==
    /\ ingPc = "embed"
    /\ batchIdx < NumBatches(Len(chunks_data), BATCH_SIZE)
    /\ attempt < EMBED_ATTEMPTS
    /\ attempt' = attempt + 1
    /\ ingPc' = IF attempt + 1 >= EMBED_ATTEMPTS
                THEN OnBatchExhausted("RetryError") ELSE "embed"
    /\ UNCHANGED <<docs, docIdx, chunks_data, id_counter, embeddings_list,
                   batchIdx, written, fileVars, svcVars, libVars, appVars>>

\* line 306: the loop over the batches is over
EmbeddingDone ==
    /\ ingPc = "embed"
    /\ batchIdx = NumBatches(Len(chunks_data), BATCH_SIZE)
    /\ ingPc' = "build"
    /\ UNCHANGED <<docs, docIdx, chunks_data, id_counter, embeddings_list,
                   batchIdx, attempt, written, fileVars, svcVars, libVars, appVars>>

\* line 331: {item['id']: item for item in chunks_data}, an insertion-ordered
\* dict: a repeated key keeps its first position and takes the last value
DictFromItems(items) ==
    LET firsts == SelectSeq([i \in 1..Len(items) |-> i],
                      LAMBDA i : \A j \in 1..(i - 1) : items[j].id # items[i].id)
    IN [k \in 1..Len(firsts) |->
          items[SetMax({j \in 1..Len(items) : items[j].id = items[firsts[k]].id})]]

\* lines 317-335: the index is built over all vectors and written
WriteIndex ==
    /\ ingPc = "build"
    /\ FAISS_FILE' = [exists |-> TRUE, ok |-> TRUE, entries |-> embeddings_list]
    /\ written' = written \cup {"faiss"}
    /\ ingPc' = "write_map"
    /\ UNCHANGED <<docs, docIdx, chunks_data, id_counter, embeddings_list,
                   batchIdx, attempt, MAP_FILE, CHUNKS_FILE, svcVars, libVars, appVars>>

\* lines 331 and 338-340: the document map is written
WriteMap ==
    /\ ingPc = "write_map"
    /\ MAP_FILE' = [exists |-> TRUE, ok |-> TRUE,
                    entries |-> DictFromItems(chunks_data)]
    /\ written' = written \cup {"map"}
    /\ ingPc' = "done"
    /\ UNCHANGED <<docs, docIdx, chunks_data, id_counter, embeddings_list,
                   batchIdx, attempt, FAISS_FILE, CHUNKS_FILE, svcVars, libVars, appVars>>

NextIngest ==
    \/ \E keyPresent \in BOOLEAN : \E clientOk \in BOOLEAN :
          StartScript(keyPresent, clientOk)
    \/ Cleanup
    \/ ProcessDocument
    \/ WriteChunks
    \/ BatchSucceeds
    \/ BatchAttemptFails
    \/ EmbeddingDone
    \/ WriteIndex
    \/ WriteMap

SpecIngest == InitIngest /\ [][NextIngest]_vars

\* the script is one sequential process: inside the batch loop it takes its
\* next step whenever it has one (the waits of tenacity and the pause of line
\* 304 are finite, and a request to the service returns or raises)
SpecIngestLive ==
    SpecIngest /\ WF_vars(BatchSucceeds \/ BatchAttemptFails \/ EmbeddingDone)

(***************************************************************************)
(* Properties of the ingestion run.                                        *)
(***************************************************************************)
\* C4: when a run has written its artifacts, the index holds one row per chunk
\* and the map one entry per chunk, the i-th map entry is the i-th chunk and
\* row i is the vector of its text, so that list(map keys)[r] is the chunk of
\* row r; a run without chunks leaves neither index nor map.
C4_RowsMatchMap ==
    /\ ingPc = "done" =>
          /\ FAISS_FILE.exists /\ MAP_FILE.exists
          /\ Len(FAISS_FILE.entries) = Len(chunks_data)
          /\ Len(MAP_FILE.entries) = Len(chunks_data)
          /\ \A i \in 1..Len(chunks_data) :
                /\ MAP_FILE.entries[i] = chunks_data[i]
                /\ FAISS_FILE.entries[i] = Vec(chunks_data[i].text)
          /\ \A r \in 0..(Len(FAISS_FILE.entries) - 1) :
                /\ PyIndexOk(Len(MAP_FILE.entries), r)
                /\ FAISS_FILE.entries[r + 1] =
                      Vec(MAP_FILE.entries[PyIndexPos(Len(MAP_FILE.entries), r)].text)
    /\ ingPc = "done_empty" =>
          chunks_data = <<>> /\ ~FAISS_FILE.exists /\ ~MAP_FILE.exists

\* C4 witness: a run over more than two full batches has written its artifacts
C4_Witness ==
    /\ ingPc = "done"
    /\ Len(chunks_data) > 2 * BATCH_SIZE
    /\ Len(chunks_data) % BATCH_SIZE # 0

\* C10: once a batch has failed on its last attempt the run has ended, and
\* neither the index file nor the map file was written or exists, whichever
\* batch it was.
C10_NoPartialIndex ==
    attempt = EMBED_ATTEMPTS =>
        /\ ingPc \in {"aborted", "crashed"}
        /\ "faiss" \notin written /\ "map" \notin written
        /\ ~FAISS_FILE.exists /\ ~MAP_FILE.exists

\* C10 witness: the third batch failed five times after two batches succeeded
C10_Witness ==
    /\ attempt = EMBED_ATTEMPTS
    /\ batchIdx = 2
    /\ Len(embeddings_list) = 2 * BATCH_SIZE
    /\ ingPc \in {"aborted", "crashed"}

(***************************************************************************)
(* chunk_text_optimized (data_prep.py, lines 178-223).                     *)
(*                                                                         *)
(* The chunker only concatenates, strips and measures strings, so a string *)
(* is a sequence of pieces [kind, id, len, lead, trail]: the header, a     *)
(* sentence of the tokenizer's output, or one blank.  Its length is the    *)
(* sum of the pieces' lengths; lead and trail count the whitespace         *)
(* characters a piece starts and ends with, both equal to len when the     *)
(* piece holds nothing else.                                               *)
(***************************************************************************)
MIN_CHUNK_CONTENT_SIZE == 256

CHUNK_SIZE_LIMIT == 1500

\* longest sentence list given to the chunker
MaxSentences == 3

\* len(str(n)) for n >= 0
RECURSIVE DecimalLen(_)
DecimalLen(n) == IF n < 10 THEN 1 ELSE 1 + DecimalLen(n \div 10)

\* one blank, as in " " + sentence
SpacePiece == [kind |-> "space", id |-> <<>>, len |-> 1, lead |-> 1, trail |-> 1]

\* the i-th sentence returned by nltk.sent_tokenize: n characters long, of
\* which the first lead and the last trail are whitespace
SentencePiece(i, n, lead, trail) ==
    [kind |-> "sentence", id |-> <<i>>, len |-> n, lead |-> lead, trail |-> trail]

\* header = f"LEI JURÍDICA: {file_name} (Publicada em {law_year}). CONTEÚDO: "
\* 14 + 15 + 13 fixed characters around the two fields
HeaderPiece(file_name, law_year) ==
    [kind |-> "header", id |-> <<file_name, law_year>>,
     len |-> 14 + Len(file_name) + 15 + DecimalLen(law_year) + 13,
     lead |-> 0, trail |-> 1]

\* len(s)
RECURSIVE PLen(_)
PLen(s) == IF s = <<>> THEN 0 ELSE s[1].len + PLen(Tail(s))

\* the piece holds whitespace only, or nothing
Blank(p) == p.lead = p.len

\* s.strip(): the blank pieces at both ends go, and so do the whitespace
\* the first piece left starts with and the whitespace the last one ends with
PStrip(s) ==
    LET keep == {i \in 1..Len(s) : ~Blank(s[i])}
    IN IF keep = {} THEN <<>>
       ELSE LET lo == SetMin(keep)
                hi == SetMax(keep)
                Left(q) == [q EXCEPT !.len = @ - q.lead, !.lead = 0]
                Right(q) == [q EXCEPT !.len = @ - q.trail, !.trail = 0]
            IN [k \in 1..(hi - lo + 1) |->
                   LET q == IF k = 1 THEN Left(s[lo]) ELSE s[lo + k - 1]
                   IN IF k = hi - lo + 1 THEN Right(q) ELSE q]

\* the break condition without the minimum-size test
BreakNow_no_min(current_chunk, sentence, header, max_chunk_size) ==
    PLen(current_chunk) + PLen(sentence) + 1 > max_chunk_size - PLen(header)

\* lines 199-200: the break condition
BreakNow(current_chunk, sentence, header, max_chunk_size) ==
    /\ PLen(current_chunk) + PLen(sentence) + 1 > max_chunk_size - PLen(header)
    /\ PLen(current_chunk) > MIN_CHUNK_CONTENT_SIZE

\* lines 194-208: the loop over the sentences, from sentence i on
RECURSIVE ChunkLoop(_, _, _, _, _, _)
ChunkLoop(sentences, i, header, max_chunk_size, current_chunk, optimized_chunks) ==
    IF i > Len(sentences)
    THEN [current_chunk |-> current_chunk, optimized_chunks |-> optimized_chunks]
    ELSE LET sentence == <<sentences[i]>>
         IN IF BreakNow(current_chunk, sentence, header, max_chunk_size)
            THEN ChunkLoop(sentences, i + 1, header, max_chunk_size, sentence,
                           Append(optimized_chunks, header \o PStrip(current_chunk)))
            ELSE ChunkLoop(sentences, i + 1, header, max_chunk_size,
                           current_chunk \o <<SpacePiece>> \o sentence,
                           optimized_chunks)

\* the final buffer opens a chunk of its own only when it is large
FinalIsOwnChunk_only_large(final_chunk_content, optimized_chunks) ==
    PLen(final_chunk_content) > MIN_CHUNK_CONTENT_SIZE

\* line 215: the final buffer becomes a chunk of its own
FinalIsOwnChunk(final_chunk_content, optimized_chunks) ==
    \/ PLen(final_chunk_content) > MIN_CHUNK_CONTENT_SIZE
    \/ optimized_chunks = <<>>

\* the tail is put in front of the last chunk's content
MergeTail_into_first(optimized_chunks, final_chunk_content) ==
    [optimized_chunks EXCEPT ![1] = @ \o <<SpacePiece>> \o final_chunk_content]

\* line 221: optimized_chunks[-1] += " " + final_chunk_content
MergeTail(optimized_chunks, final_chunk_content) ==
    [optimized_chunks EXCEPT ![Len(optimized_chunks)] =
        @ \o <<SpacePiece>> \o final_chunk_content]

\* a small final buffer is dropped instead of being merged
chunk_text_optimized_drops_tail(sentences, file_name, law_year, max_chunk_size) ==
    LET header == <<HeaderPiece(file_name, law_year)>>
        loop == ChunkLoop(sentences, 1, header, max_chunk_size, <<>>, <<>>)
        current_chunk == loop.current_chunk
        optimized_chunks == loop.optimized_chunks
        final_chunk_content == PStrip(current_chunk)
    IN IF PLen(current_chunk) = 0   \* if current_chunk: false for ''
       THEN optimized_chunks
       ELSE IF FinalIsOwnChunk(final_chunk_content, optimized_chunks)
       THEN Append(optimized_chunks, header \o final_chunk_content)
       ELSE optimized_chunks

\* lines 183-223; sentences is what nltk.sent_tokenize(text) returned
chunk_text_optimized(sentences, file_name, law_year, max_chunk_size) ==
    LET header == <<HeaderPiece(file_name, law_year)>>
        loop == ChunkLoop(sentences, 1, header, max_chunk_size, <<>>, <<>>)
        current_chunk == loop.current_chunk
        optimized_chunks == loop.optimized_chunks
        final_chunk_content == PStrip(current_chunk)
    IN IF PLen(current_chunk) = 0   \* if current_chunk: false for ''
       THEN optimized_chunks
       ELSE IF FinalIsOwnChunk(final_chunk_content, optimized_chunks)
       THEN Append(optimized_chunks, header \o final_chunk_content)
       ELSE IF optimized_chunks # <<>>
       THEN MergeTail(optimized_chunks, final_chunk_content)
       ELSE optimized_chunks

\* file names and years the chunker is called with
FILE_TEST == <<"L","C","_","9","9","9","_","2","0","2","4",".","h","t","m","l">>
FILE_SHORT == <<"a",".","h","t","m","l">>
ChunkSources == {<<FILE_TEST, 2024>>, <<FILE_SHORT, 0>>}

\* sentence lengths: the three of the repository's test (309, 304, 45), the
\* two around the minimum size, and one as long as the default limit
SentenceLens == {45, 256, 257, 304, 309, 1500}

ChunkLimits == {400, CHUNK_SIZE_LIMIT}

\* the sentence lists: every list of at most MaxSentences lengths
SentenceLists ==
    UNION {[1..n -> SentenceLens] : n \in 0..MaxSentences}

\* sentences that neither start nor end with whitespace
Sentences(lens) == [i \in 1..Len(lens) |-> SentencePiece(i, lens[i], 0, 0)]

ChunkArgs ==
    {[sentences |-> Sentences(lens), file_name |-> src[1], law_year |-> src[2],
      max_chunk_size |-> m] :
        lens \in SentenceLists, src \in ChunkSources, m \in ChunkLimits}

InitChunk ==
    /\ SvcImported
    /\ FAISS_FILE = NoFile /\ MAP_FILE = NoFile /\ CHUNKS_FILE = NoFile
    /\ IngIdle
    /\ AppOff
    /\ normCall = NoCall
    /\ htmlCall = NoCall
    /\ \E a \in ChunkArgs : chunkCall = [args |-> a, ret |-> <<>>, done |-> FALSE]

\* one call chunk_text_optimized(text, file_name, law_year, max_chunk_size)
ChunkTextOptimized ==
    /\ chunkCall.args # <<>>
    /\ ~chunkCall.done
    /\ chunkCall' = [chunkCall EXCEPT
          !.ret = chunk_text_optimized(chunkCall.args.sentences,
                                       chunkCall.args.file_name,
                                       chunkCall.args.law_year,
                                       chunkCall.args.max_chunk_size),
          !.done = TRUE]
    /\ UNCHANGED <<svcVars, fileVars, ingVars, normCall, htmlCall, appVars>>

NextChunk == ChunkTextOptimized

SpecChunk == InitChunk /\ [][NextChunk]_vars

(***************************************************************************)
(* Properties of the chunker.                                              *)
(***************************************************************************)
\* the content of a chunk: what follows its first piece
ContentOf(chunk) == Tail(chunk)
\* the header the call must put in front of every chunk
CallHeader == HeaderPiece(chunkCall.args.file_name, chunkCall.args.law_year)
\* the buffer and the chunks at the moment the sentences are exhausted
AtExhaustion ==
    ChunkLoop(chunkCall.args.sentences, 1, <<CallHeader>>,
              chunkCall.args.max_chunk_size, <<>>, <<>>)
HeadersIn(chunk) == Cardinality({i \in 1..Len(chunk) : chunk[i].kind = "header"})
HoldsSentence(chunk, i) ==
    \E j \in 1..Len(chunk) : chunk[j].kind = "sentence" /\ chunk[j].id = <<i>>

\* C11: every returned chunk has a non-empty content of at least 256
\* characters after the header, unless the returned list has exactly one chunk
C11_MinContent ==
    (chunkCall.done /\ Len(chunkCall.ret) # 1) =>
        \A c \in 1..Len(chunkCall.ret) :
            /\ ContentOf(chunkCall.ret[c]) # <<>>
            /\ PLen(ContentOf(chunkCall.ret[c])) >= MIN_CHUNK_CONTENT_SIZE

\* a call returned two chunks or more and one of them holds exactly one
\* sentence of more than 256 characters
C11_Witness ==
    /\ chunkCall.done
    /\ Len(chunkCall.ret) >= 2
    /\ \E c \in 1..Len(chunkCall.ret) :
          PLen(ContentOf(chunkCall.ret[c])) = 257

\* C12: when the sentences are exhausted with a buffer of at most 256
\* characters and a chunk was already emitted, the buffer is appended to the
\* last emitted chunk after one blank, without a second header, and the number
\* of chunks does not grow; every chunk starts with the exact header; the
\* sentences of 309, 304 and 45 characters with max_chunk_size = 400 give two
\* chunks, the third sentence in the second and not in the first
C12_TailMerge ==
    chunkCall.done =>
        LET ret == chunkCall.ret
            emitted == AtExhaustion.optimized_chunks
            buffer == PStrip(AtExhaustion.current_chunk)
            n == Len(emitted)
        IN /\ \A c \in 1..Len(ret) :
                 /\ ret[c][1] = CallHeader
                 /\ HeadersIn(ret[c]) = 1
           /\ (n > 0 /\ PLen(buffer) <= MIN_CHUNK_CONTENT_SIZE) =>
                 /\ Len(ret) = n
                 /\ \A c \in 1..(n - 1) : ret[c] = emitted[c]
                 /\ ret[n] = emitted[n] \o <<SpacePiece>> \o buffer
           /\ (/\ chunkCall.args.sentences = Sentences(<<309, 304, 45>>)
               /\ chunkCall.args.max_chunk_size = 400
               /\ chunkCall.args.file_name = FILE_TEST) =>
                 /\ Len(ret) = 2
                 /\ HoldsSentence(ret[2], 3)
                 /\ ~HoldsSentence(ret[1], 3)

\* the repository's test case has been chunked
C12_Witness ==
    /\ chunkCall.done
    /\ chunkCall.args.sentences = Sentences(<<309, 304, 45>>)
    /\ chunkCall.args.max_chunk_size = 400
    /\ chunkCall.args.file_name = FILE_TEST
    /\ PLen(PStrip(AtExhaustion.current_chunk)) = 45
    /\ Len(AtExhaustion.optimized_chunks) = 2

\* C13: a non-empty sentence list that never triggers the break condition, in
\* particular a single sentence under the limit, gives exactly one chunk: the
\* header followed by all the sentences, whatever the size
C13_SingleChunk ==
    (/\ chunkCall.done
     /\ chunkCall.args.sentences # <<>>
     /\ AtExhaustion.optimized_chunks = <<>>) =>
        /\ Len(chunkCall.ret) = 1
        /\ chunkCall.ret[1][1] = CallHeader
        /\ \A i \in 1..Len(chunkCall.args.sentences) :
              HoldsSentence(chunkCall.ret[1], i)

\* a single sentence of 45 characters was chunked under the limit of 400
C13_Witness ==
    /\ chunkCall.done
    /\ chunkCall.args.sentences = Sentences(<<45>>)
    /\ chunkCall.args.max_chunk_size = 400
    /\ Len(chunkCall.ret) = 1

\* C14: every returned chunk, header included, is at most max_chunk_size
\* characters long
C14_Bounded ==
    chunkCall.done =>
        \A c \in 1..Len(chunkCall.ret) :
            PLen(chunkCall.ret[c]) <= chunkCall.args.max_chunk_size

(***************************************************************************)
(* Calls of normalize_law_id: the file names it is called with.            *)
(***************************************************************************)
\* fragments of file names
T_LEI == <<"L","E","I"," ">>
T_COMPLEMENTAR == <<"C","o","m","p","l","e","m","e","n","t","a","r"," ">>
T_DECRETO == <<"D","E","C","R","E","T","O"," ">>
T_LC_N == <<"L","C"," ","N","º"," ">>
T_LC_ == <<"L","C","_">>
T_PROMULGADA == <<"P","r","o","m","u","l","g","a","d","a"," ">>
T_ORDINARIA == <<"O","R","D","I","N","Á","R","I","A"," ">>
T_N == <<"N","°"," ">>
T_NUMERO == <<"n","u","m","e","r","o"," ">>
T_715 == <<"7","1","5">>
T_17_852 == <<"1","7",".","8","5","2">>
T_20199 == <<"2","0","1","9","9">>
T_1995 == <<"1","9","9","5",","," ">>
T_2018 == <<"2","0","1","8">>
T_HTML == <<".","h","t","m","l">>
T_ANEXO == <<"a","n","e","x","o"," ">>
T_LC_NBSP == <<"L","C"," ","n"," ">>
NameTokens == {T_LEI, T_COMPLEMENTAR, T_DECRETO, T_LC_N, T_LC_, T_PROMULGADA, T_ORDINARIA, T_N, T_NUMERO, T_715, T_17_852, T_20199, T_1995, T_2018, T_HTML, T_ANEXO, T_LC_NBSP}

\* most fragments a file name is made of
MaxNameTokens == 3

RECURSIVE Concat(_)
Concat(seqs) == IF seqs = <<>> THEN <<>> ELSE seqs[1] \o Concat(Tail(seqs))

\* the file names: every concatenation of 1..MaxNameTokens fragments
FileNames ==
    {Concat(ts) : ts \in UNION {[1..n -> NameTokens] : n \in 1..MaxNameTokens}}

InitNormalize ==
    /\ SvcImported
    /\ FAISS_FILE = NoFile /\ MAP_FILE = NoFile /\ CHUNKS_FILE = NoFile
    /\ IngIdle
    /\ AppOff
    /\ chunkCall = NoCall
    /\ htmlCall = NoCall
    /\ \E f \in FileNames :
          normCall = [args |-> [file_name |-> f], ret |-> <<>>, done |-> FALSE]

\* one call normalize_law_id(file_name)
NormalizeLawId ==
    /\ normCall.args # <<>>
    /\ ~normCall.done
    /\ normCall' = [normCall EXCEPT !.ret = normalize_law_id(normCall.args.file_name),
                                    !.done = TRUE]
    /\ UNCHANGED <<svcVars, fileVars, ingVars, chunkCall, htmlCall, appVars>>

NextNormalize == NormalizeLawId

SpecNormalize == InitNormalize /\ [][NextNormalize]_vars

(***************************************************************************)
(* Properties of normalize_law_id.                                         *)
(***************************************************************************)
\* s.split(sep) for a one-character separator
RECURSIVE SplitOn(_, _)
SplitOn(s, sep) ==
    LET at == {i \in 1..Len(s) : s[i] = sep}
    IN IF at = {} THEN <<s>>
       ELSE <<SubSeq(s, 1, SetMin(at) - 1)>>
                \o SplitOn(SubSeq(s, SetMin(at) + 1, Len(s)), sep)
\* the three components of the identifier the call returned
IdParts == SplitOn(normCall.ret.unique_id, "_")
\* the lower-cased file name of the call
CalledName == Lower(normCall.args.file_name)
\* 'lc', any blanks, then the 'n' of a number sign
LcNumberMarkerIn(s) ==
    \E i \in 1..Len(s) : \E j \in (i + 2)..Len(s) :
        /\ s[i] = "l" /\ s[i + 1] = "c" /\ s[j] = "n"
        /\ \A k \in (i + 2)..(j - 1) : IsSpace(s[k])
\* the 4-digit numbers 1900..2099 of s that are not part of a longer number
YearTokens(s) ==
    {ToInt(SubSeq(s, p, p + 3)) : p \in
        {q \in 1..(Len(s) - 3) :
            /\ YearAt(s, q)
            /\ q = 1 \/ ~IsDigit(s[q - 1])
            /\ q + 4 > Len(s) \/ ~IsDigit(s[q + 4])}}

\* C15: the type, first component of the identifier, is LC when the name
\* holds 'complementar' or an LC number marker, whatever else it holds;
\* otherwise DECRETO when it holds 'decreto'; otherwise LEI when it holds
\* 'lei', 'promulgada' or 'ordinária'; otherwise DOC; letter case is ignored
C15_TypeOrder ==
    normCall.done =>
        IdParts[1] =
            IF Contains(CalledName, W_COMPLEMENTAR) \/ LcNumberMarkerIn(CalledName)
            THEN TYPE_LC
            ELSE IF Contains(CalledName, W_DECRETO) THEN TYPE_DECRETO
            ELSE IF \/ Contains(CalledName, W_LEI)
                    \/ Contains(CalledName, W_PROMULGADA)
                    \/ Contains(CalledName, W_ORDINARIA)
            THEN TYPE_LEI
            ELSE TYPE_DOC

\* a name holding 'DECRETO', 'LEI' and 'Complementar' was classified LC
C15_Witness ==
    /\ normCall.done
    /\ normCall.args.file_name = T_DECRETO \o T_LEI \o T_COMPLEMENTAR
    /\ IdParts[1] = TYPE_LC

\* C16: the number component is a non-empty string of digits, and it is
\* '0000' for every file name that holds no digit
C16_NumberDigits ==
    normCall.done =>
        /\ IdParts[2] # <<>>
        /\ \A i \in 1..Len(IdParts[2]) : IsDigit(IdParts[2][i])
        /\ (\A i \in 1..Len(CalledName) : ~IsDigit(CalledName[i]))
              => IdParts[2] = <<"0","0","0","0">>

\* C17: the year is the largest 4-digit year token 1900..2099 of the name,
\* digits of a longer number not counting, and 0 when there is none; it is
\* also the last component of the identifier
C17_YearMax ==
    normCall.done =>
        /\ normCall.ret.law_year =
              IF YearTokens(CalledName) = {} THEN 0 ELSE SetMax(YearTokens(CalledName))
        /\ IdParts[Len(IdParts)] = IntToChars(normCall.ret.law_year)

(***************************************************************************)
(* extrair_texto_de_html (data_prep.py, lines 133-175).                    *)
(*                                                                         *)
(* The input is the tree BeautifulSoup(html_content, 'html.parser') builds:*)
(* a node is [tag, text, kids], with tag "#text" for a string.  A text is  *)
(* a sequence of words and whitespace characters.                          *)
(***************************************************************************)
Txt(tokens) == [tag |-> "#text", text |-> tokens, kids |-> <<>>]
El(tag, kids) == [tag |-> tag, text |-> <<>>, kids |-> kids]

\* line 145: the elements that carry no legal text
NON_TEXT_TAGS == {"script", "style", "header", "footer", "nav"}
\* line 150: the elements that mark revoked text
REVOKED_TAGS == {"del", "strike"}
\* line 161: the elements whose text is collected
BLOCK_TAGS == {"p", "div", "h1", "h2", "h3", "h4", "h5", "h6"}

\* for t in sopa.find_all(tags): t.decompose() -- every element with one of
\* the tags leaves the tree with all it contains
RECURSIVE Decompose(_, _)
Decompose(node, tags) ==
    LET Kept(k) == k.tag \notin tags
        kept == SelectSeq(node.kids, Kept)
    IN [node EXCEPT !.kids = [i \in 1..Len(kept) |-> Decompose(kept[i], tags)]]

\* the descendants of node in document order
RECURSIVE Descendants(_)
Descendants(node) ==
    LET RECURSIVE Over(_)
        Over(i) == IF i > Len(node.kids) THEN <<>>
                   ELSE <<node.kids[i]>> \o Descendants(node.kids[i]) \o Over(i + 1)
    IN Over(1)

\* node.find_all(tags)
FindAll(node, tags) ==
    LET Wanted(d) == d.tag \in tags
    IN SelectSeq(Descendants(node), Wanted)

\* node.find(tag): the first such descendant, or None
Find(node, tag) ==
    LET found == FindAll(node, {tag})
    IN IF found = <<>> THEN NoneVal ELSE Some(found[1])

\* a token of a text is a whitespace character: what str.strip() removes and
\* \s matches
IsWs(t) == t \in WHITESPACE

\* str.strip() on a text
StripText(t) ==
    LET keep == {i \in 1..Len(t) : ~IsWs(t[i])}
    IN IF keep = {} THEN <<>> ELSE SubSeq(t, SetMin(keep), SetMax(keep))

\* sep.join(parts)
RECURSIVE JoinTexts(_, _)
JoinTexts(parts, sep) ==
    IF parts = <<>> THEN <<>>
    ELSE IF Len(parts) = 1 THEN parts[1]
    ELSE parts[1] \o sep \o JoinTexts(Tail(parts), sep)

\* tag.get_text(separator=' ', strip=True): the strings below the tag, each
\* stripped, the empty ones dropped, joined by one blank
GetText(node) ==
    LET IsString(d) == d.tag = "#text"
        strings == SelectSeq(Descendants(node), IsString)
        stripped == [i \in 1..Len(strings) |-> StripText(strings[i].text)]
        NonEmpty(t) == t # <<>>
    IN JoinTexts(SelectSeq(stripped, NonEmpty), <<" ">>)

\* re.sub(r'\s+', ' ', t): a run of whitespace becomes one blank
CollapseWs(t) ==
    LET keep == {i \in 1..Len(t) : ~IsWs(t[i]) \/ i = 1 \/ ~IsWs(t[i - 1])}
        Pos(k) == CHOOSE i \in keep : Cardinality({j \in keep : j <= i}) = k
    IN [k \in 1..Cardinality(keep) |->
           IF IsWs(t[Pos(k)]) THEN " " ELSE t[Pos(k)]]

\* lines 138-175; readable is whether the file could be opened and decoded,
\* document is the tree the parser built
extrair_texto_de_html(readable, document) ==
    IF ~readable THEN <<>>
    ELSE LET sopa == Decompose(Decompose(document, NON_TEXT_TAGS), REVOKED_TAGS)
             main == Find(sopa, "main")
             corpo_principal == IF ~main.isNone THEN main ELSE Find(sopa, "body")
         IN IF corpo_principal.isNone THEN <<>>
            ELSE LET tags == FindAll(corpo_principal.val, BLOCK_TAGS)
                     texto_parts == [i \in 1..Len(tags) |-> GetText(tags[i])]
                     texto_completo == JoinTexts(texto_parts, <<" ">>)
                 IN StripText(CollapseWs(texto_completo))

\* the elements a document body is made of
B_P == El("p", <<Txt(<<"Artigo1", " ", "vigente.">>)>>)
B_P_DEL == El("p", <<El("del", <<Txt(<<"Artigo2", " ", "revogado.">>)>>)>>)
B_P_S == El("p", <<El("s", <<Txt(<<"Artigo3", " ", "obsoleto.">>)>>)>>)
B_P_MIXED ==
    El("p", <<Txt(<<" ", "antes", "\n">>),
              El("strike", <<El("b", <<Txt(<<"riscado">>)>>)>>),
              Txt(<<"depois", " ">>)>>)
B_DIV_NESTED ==
    El("div", <<Txt(<<"\n", " ">>),
                El("p", <<Txt(<<"interno">>),
                          El("span", <<El("del", <<Txt(<<"fundo">>)>>)>>)>>)>>)
B_DEL_P == El("del", <<El("p", <<Txt(<<"bloco", " ", "revogado">>)>>)>>)
B_SCRIPT == El("script", <<Txt(<<"codigo">>)>>)
B_H1 == El("h1", <<Txt(<<"Titulo">>)>>)
B_BARE == Txt(<<"\n", "solto", "\n">>)
B_P_NBSP == El("p", <<Txt(<<" ", "caput", "\r", "\n", " ", "fim", " ">>)>>)
Blocks == {B_P, B_P_DEL, B_P_S, B_P_MIXED, B_DIV_NESTED, B_DEL_P, B_SCRIPT,
           B_H1, B_BARE, B_P_NBSP}

\* most elements directly inside the container
MaxBlocks == 2

BlockLists == UNION {[1..n -> Blocks] : n \in 0..MaxBlocks}

\* the documents: the elements inside <body>, inside <main> within <body>, or
\* in a fragment without <body>
Documents ==
    {El("[document]", <<El("html", <<El("body", bs)>>)>>) : bs \in BlockLists}
    \cup {El("[document]",
             <<El("html", <<El("body", <<El("p", <<Txt(<<"menu">>)>>),
                                         El("main", bs)>>)>>)>>) :
             bs \in BlockLists}
    \cup {El("[document]", bs) : bs \in BlockLists}

InitExtract ==
    /\ SvcImported
    /\ FAISS_FILE = NoFile /\ MAP_FILE = NoFile /\ CHUNKS_FILE = NoFile
    /\ IngIdle
    /\ AppOff
    /\ chunkCall = NoCall
    /\ normCall = NoCall
    /\ \E d \in Documents : \E r \in BOOLEAN :
          htmlCall = [args |-> [readable |-> r, document |-> d],
                      ret |-> <<>>, done |-> FALSE]

\* one call extrair_texto_de_html(caminho_arquivo)
ExtrairTextoDeHtml ==
    /\ htmlCall.args # <<>>
    /\ ~htmlCall.done
    /\ htmlCall' = [htmlCall EXCEPT
          !.ret = extrair_texto_de_html(htmlCall.args.readable,
                                        htmlCall.args.document),
          !.done = TRUE]
    /\ UNCHANGED <<svcVars, fileVars, ingVars, chunkCall, normCall, appVars>>

NextExtract == ExtrairTextoDeHtml

SpecExtract == InitExtract /\ [][NextExtract]_vars

(***************************************************************************)
(* Properties of the text extraction.                                      *)
(***************************************************************************)
\* the words of the strings that lie inside an element with one of the tags
RECURSIVE WordsInside(_, _, _)
WordsInside(node, tags, inside) ==
    IF node.tag = "#text"
    THEN IF inside THEN {node.text[i] : i \in {j \in 1..Len(node.text) :
                                                 ~IsWs(node.text[j])}}
         ELSE {}
    ELSE UNION {WordsInside(node.kids[i], tags, inside \/ node.tag \in tags) :
                   i \in 1..Len(node.kids)}

\* C18: no word of a string nested at any depth inside <del>, <strike> or <s>
\* is in the extracted text, and the extracted text has no leading, trailing
\* or repeated whitespace
C18_NoStruckText ==
    htmlCall.done =>
        LET ret == htmlCall.ret
        IN /\ \A i \in 1..Len(ret) :
                 ret[i] \notin WordsInside(htmlCall.args.document,
                                           {"del", "strike", "s"}, FALSE)
           /\ ret = StripText(ret)
           /\ \A i \in 1..Len(ret) : IsWs(ret[i]) =>
                 ret[i] = " " /\ ~IsWs(ret[i + 1])

(***************************************************************************)
(* The Streamlit session (app_web.py).                                     *)
(*                                                                         *)
(* Texts are sequences of characters.                                      *)
(***************************************************************************)
API_KEY == "GEMINI_API_KEY value"
W_ERRO == <<"E","r","r","o">>
\* line 51
STATUS_READY ==
    <<"P", "r", "o", "n", "t", "o", " ", "p", "a", "r", "a", " ", "c", "o",
      "n", "s", "u", "l", "t", "a", "s", ".">>
\* line 43
STATUS_MISSING_KEY ==
    <<"E", "r", "r", "o", " ", "C", "R", "Í", "T", "I", "C", "O", ":", " ",
      "A", " ", "c", "h", "a", "v", "e", " ", "'", "G", "E", "M", "I", "N",
      "I", "_", "A", "P", "I", "_", "K", "E", "Y", "'", " ", "n", "ã", "o",
      " ", "f", "o", "i", " ", "e", "n", "c", "o", "n", "t", "r", "a", "d",
      "a", " ", "n", "o", "s", " ", "S", "e", "g", "r", "e", "d", "o", "s",
      " ", "(", "S", "e", "c", "r", "e", "t", "s", ")", " ", "d", "o", " ",
      "S", "t", "r", "e", "a", "m", "l", "i", "t", ".", " ", "P", "o", "r",
      " ", "f", "a", "v", "o", "r", ",", " ", "c", "o", "n", "f", "i", "g",
      "u", "r", "e", "-", "a", " ", "n", "o", " ", "p", "a", "i", "n", "e",
      "l", " ", "d", "o", " ", "S", "t", "r", "e", "a", "m", "l", "i", "t",
      " ", "C", "l", "o", "u", "d", ".">>
\* lines 90 and 95 of rag_service.py: the text of the exception raised
InitExceptionText(ret) ==
    IF ret = "raised_missing"
    THEN
    <<"Í", "n", "d", "i", "c", "e", " ", "F", "A", "I", "S", "S", " ", "a",
      "u", "s", "e", "n", "t", "e", ".", " ", "P", "o", "r", " ", "f", "a",
      "v", "o", "r", ",", " ", "e", "x", "e", "c", "u", "t", "e", " ", "o",
      " ", "'", "p", "r", "o", "c", "e", "s", "s", "a", "r", "_", "l", "e",
      "i", "s", ".", "p", "y", "'", " ", "c", "o", "m", " ", "o", " ", "n",
      "o", "v", "o", " ", "m", "o", "d", "e", "l", "o", " ", "d", "e", " ",
      "e", "m", "b", "e", "d", "d", "i", "n", "g", ".">>
    ELSE
    <<"Í", "n", "d", "i", "c", "e", " ", "F", "A", "I", "S", "S", " ", "c",
      "o", "r", "r", "o", "m", "p", "i", "d", "o", " ", "o", "u", " ", "i",
      "n", "c", "o", "m", "p", "a", "t", "í", "v", "e", "l", ".", " ", "É",
      " ", "n", "e", "c", "e", "s", "s", "á", "r", "i", "a", " ", "a", " ",
      "r", "e", "-", "i", "n", "g", "e", "s", "t", "ã", "o", " ", "c", "o",
      "m", " ", "o", " ", "'", "p", "r", "o", "c", "e", "s", "s", "a", "r",
      "_", "l", "e", "i", "s", ".", "p", "y", "'", ".">>
\* line 54
StatusInitError(ret) ==
    <<"E", "r", "r", "o", " ", "n", "a", " ", "i", "n", "i", "c", "i", "a",
      "l", "i", "z", "a", "ç", "ã", "o", ":", " ">>
    \o InitExceptionText(ret) \o
    <<".", " ", "V", "e", "r", "i", "f", "i", "q", "u", "e", " ", "s", "e",
      " ", "o", " ", "í", "n", "d", "i", "c", "e", " ", "F", "A", "I", "S",
      "S", " ", "e", " ", "o", " ", "M", "a", "p", "a", " ", "d", "e", " ",
      "D", "o", "c", "u", "m", "e", "n", "t", "o", "s", " ", "e", "x", "i",
      "s", "t", "e", "m", " ", "e", " ", "n", "ã", "o", " ", "e", "s", "t",
      "ã", "o", " ", "c", "o", "r", "r", "o", "m", "p", "i", "d", "o", "s",
      ".">>

\* lines 71 and 78: the seed message
GREETING ==
    [role |-> "assistant",
     content |->
    <<"O", "l", "á", "!", " ", "S", "o", "u", " ", "s", "e", "u", " ", "a",
      "s", "s", "i", "s", "t", "e", "n", "t", "e", " ", "j", "u", "r", "í",
      "d", "i", "c", "o", " ", "e", "s", "p", "e", "c", "i", "a", "l", "i",
      "z", "a", "d", "o", " ", "e", "m", " ", "L", "e", "i", "s", " ", "d",
      "e", " ", "S", "a", "n", "t", "a", " ", "C", "a", "t", "a", "r", "i",
      "n", "a", ".", " ", "C", "o", "m", "o", " ", "p", "o", "s", "s", "o",
      " ", "a", "j", "u", "d", "a", "r", " ", "n", "a", " ", "s", "u", "a",
      " ", "c", "o", "n", "s", "u", "l", "t", "a", " ", "l", "e", "g", "a",
      "l", " ", "h", "o", "j", "e", "?">>]

\* line 121: the text before that of the exception
BACKEND_ERROR_MSG ==
    <<"O", "c", "o", "r", "r", "e", "u", " ", "u", "m", " ", "e", "r", "r",
      "o", " ", "i", "n", "e", "s", "p", "e", "r", "a", "d", "o", " ", "n",
      "o", " ", "b", "a", "c", "k", "-", "e", "n", "d", ":", " ">>

\* the text st.write_stream returns for a stream that is consumed to its end
StreamText(stream) ==
    IF stream = "stream_a"
    THEN <<"A"," ","i","n","f","o","r","m","a","ç","ã","o"," ","s","o","l","i","c",
           "i","t","a","d","a"," ","n","ã","o"," ","f","o","i"," ","e","n","c","o",
           "n","t","r","a","d","a"," ","n","o","s"," ","d","o","c","u","m","e","n",
           "t","o","s"," ","j","u","r","í","d","i","c","o","s",".">>
    ELSE <<"C","o","n","f","o","r","m","e"," ","o"," ","A","r","t","."," ","1","º",
           " ","(","L","C"," ","7","1","5",".","h","t","m","l",")",".">>

\* line 154: "não foi encontrada nos documentos" in full_response
\*           or "não-jurídica" in full_response
MentionsNoSource(full_response) ==
    \/ Contains(full_response,
        <<"n", "ã", "o", " ", "f", "o", "i", " ", "e", "n", "c", "o", "n", "t",
          "r", "a", "d", "a", " ", "n", "o", "s", " ", "d", "o", "c", "u", "m",
          "e", "n", "t", "o", "s">>)
    \/ Contains(full_response,
        <<"n", "ã", "o", "-", "j", "u", "r", "í", "d", "i", "c", "a">>)

\* lines 147-157: the footer, without the elapsed time
Footer(full_response, cited_sources) ==
    IF cited_sources # {}
    THEN [kind |-> "Fontes Recuperadas", sources |-> cited_sources]
    ELSE IF MentionsNoSource(full_response)
    THEN [kind |-> "Nenhuma fonte no corpus foi utilizada.", sources |-> {}]
    ELSE [kind |-> "Nenhuma fonte foi citada (possível erro).", sources |-> {}]

\* lines 98-101: history_for_context
HistoryForContext(msgs) == [i \in 1..Len(msgs) |-> Turn(msgs[i].role, msgs[i].content)]

\* the questions typed into st.chat_input
Prompts == {Q_MULTA}

\* most questions asked in one session
MaxQueries == 2

UserTurns(msgs) == Cardinality({i \in 1..Len(msgs) : msgs[i].role = "user"})

\* the script goes on after any status
StopsOn_never(st) == FALSE

\* line 59: if "Erro" in status
StopsOn(st) == Contains(st, W_ERRO)

InitApp ==
    /\ SvcImported
    /\ \E d \in DiskStates :
          /\ FAISS_FILE = d[1]
          /\ MAP_FILE = d[2]
          /\ CHUNKS_FILE = d[3]
    /\ IngIdle
    /\ LibIdle
    /\ appPc = "boot"
    /\ status = <<>>
    /\ messages = <<>>
    /\ initCalls = <<>>
    /\ lastRun = ""

\* the first run of the script: setup_chatbot (lines 31-54), the stop on an
\* error status (58-61) and the seed of the history (75-78).  keyPresent is
\* whether st.secrets holds GEMINI_API_KEY
SetupChatbot(keyPresent, clientOk) ==
    /\ appPc = "boot"
    /\ IF ~keyPresent
       THEN /\ status' = STATUS_MISSING_KEY
            /\ initCalls' = initCalls
            /\ UNCHANGED <<svcVars, fileVars, ingVars, libVars>>
       ELSE /\ initialize_chromadb(clientOk)
            /\ initCalls' = Append(initCalls, API_KEY)
            /\ status' = IF initRet' = "ok" THEN STATUS_READY
                         ELSE StatusInitError(initRet')
    /\ IF StopsOn(status')
       THEN appPc' = "stopped" /\ messages' = messages
       ELSE appPc' = "ready" /\ messages' = <<GREETING>>
    /\ lastRun' = lastRun

\* str(e) of an exception that leaves get_response (line 121)
EXC_NAO_JURIDICA ==
    <<"p", "e", "r", "g", "u", "n", "t", "a", " ", "n", "ã", "o", "-", "j",
      "u", "r", "í", "d", "i", "c", "a", " ", "r", "e", "c", "u", "s", "a",
      "d", "a">>
EXC_NAO_ENCONTRADA ==
    <<"a", " ", "l", "e", "i", " ", "n", "ã", "o", " ", "f", "o", "i", " ",
      "e", "n", "c", "o", "n", "t", "r", "a", "d", "a", " ", "n", "o", "s",
      " ", "d", "o", "c", "u", "m", "e", "n", "t", "o", "s">>
EXC_TIMEOUT ==
    <<"t", "i", "m", "e", "o", "u", "t">>
ExceptionTexts == {EXC_NAO_JURIDICA, EXC_NAO_ENCONTRADA, EXC_TIMEOUT}

\* Streamlit ends a running script at its next st.* call once a widget event
\* has arrived.  After line 92 the script makes such calls at lines 93-110,
\* before get_response is entered; get_response makes none; after it has
\* returned or raised the script makes them at lines 131, 137-138 (one for
\* every chunk written) and 164, before line 168
Interruptible ==
    \/ appPc = "asked"
    \/ appPc = "waiting" /\ pc \in {"done", "raised"}

\* the callback leaves the history empty
ClearChatHistory_empty ==
    /\ appPc = "ready" \/ Interruptible
    /\ messages' = <<>>
    /\ appPc' = "ready"
    /\ lastRun' = ""
    /\ UNCHANGED <<status, initCalls>>
    /\ UNCHANGED <<svcVars, fileVars, ingVars, libVars>>

\* lines 65-71 and 173, the button's callback: the click comes while the page
\* is idle or while a run handles a question, which Streamlit then ends at
\* its next st.* call; the callback runs and the script runs again from the
\* top with no question
ClearChatHistory ==
    /\ appPc = "ready" \/ Interruptible
    /\ messages' = <<GREETING>>
    /\ appPc' = "ready"
    /\ lastRun' = ""
    /\ UNCHANGED <<status, initCalls>>
    /\ UNCHANGED <<svcVars, fileVars, ingVars, libVars>>

\* lines 89-92: a question is submitted, while the page is idle or while a
\* run handles the previous question, which Streamlit then ends at its next
\* st.* call; the run that follows appends the question to the history
ChatInput(prompt) ==
    /\ appPc = "ready" \/ Interruptible
    /\ UserTurns(messages) < MaxQueries
    /\ messages' = Append(messages, [role |-> "user", content |-> prompt])
    /\ appPc' = "asked"
    /\ lastRun' = ""
    /\ UNCHANGED <<status, initCalls>>
    /\ UNCHANGED <<svcVars, fileVars, ingVars, libVars>>

\* lines 93-116: the question is shown, the placeholders are made and
\* get_response is entered with the question and the whole history
CallChatbot ==
    /\ appPc = "asked"
    /\ get_response(messages[Len(messages)].content, HistoryForContext(messages))
    /\ appPc' = "waiting"
    /\ UNCHANGED <<status, messages, initCalls, lastRun>>

\* lines 116-168, once get_response has returned or raised: the result is
\* shown, a stream being consumed through text_generator, and the answer with
\* its footer is appended to the history.  streamFails is whether the stream
\* raises while it is iterated (line 138, outside any try); e is str(e) of
\* the exception get_response raised, if it raised
HandleResult(streamFails, e) ==
    /\ appPc = "waiting"
    /\ pc \in {"done", "raised"}
    /\ LET response_result ==
               IF pc = "raised"
               THEN [kind |-> "str", value |-> BACKEND_ERROR_MSG \o e]
               ELSE [kind |-> resp.kind, value |-> resp.value]
           cited_sources == IF pc = "raised" THEN {} ELSE resp.sources
           full_response == IF response_result.kind = "str"
                            THEN response_result.value
                            ELSE StreamText(response_result.value)
       IN IF response_result.kind # "str" /\ streamFails
          THEN /\ messages' = messages
               /\ lastRun' = "exception"
          ELSE /\ ~streamFails
               /\ messages' = Append(messages,
                      [role |-> "assistant",
                       content |-> [text |-> full_response,
                                    footer |-> Footer(full_response, cited_sources)]])
               /\ lastRun' = "completed"
    /\ appPc' = "ready"
    /\ UNCHANGED <<status, initCalls>>
    /\ UNCHANGED <<svcVars, fileVars, ingVars, libVars>>

NextApp ==
    \/ \E keyPresent \in BOOLEAN : \E clientOk \in BOOLEAN :
          SetupChatbot(keyPresent, clientOk)
    \/ ClearChatHistory
    \/ \E prompt \in Prompts : ChatInput(prompt)
    \/ CallChatbot
    \/ \E streamFails \in BOOLEAN : \E e \in ExceptionTexts :
          HandleResult(streamFails, e)
    \/ \E raised \in BOOLEAN : \E text \in ClassifyTexts : ClassifyIntent(raised, text)
    \/ RefuseNonLegal
    \/ EnterGetContext
    \/ \E raised \in BOOLEAN : \E text \in ExtractTexts : GcForcedLookup(raised, text)
    \/ \E raised \in BOOLEAN : GcRewrite(raised)
    \/ \E raised \in BOOLEAN : GcEmbed(raised)
    \/ GcSearchFails
    \/ \E indices \in SearchResults(Len(VECTOR_INDEX.rows), N_RESULTS_FAISS) :
          GcSearchReturns(indices)
    \/ GrNoContext
    \/ \E raised \in BOOLEAN : \E stream \in Streams : GrGenerate(raised, stream)

SpecApp == InitApp /\ [][NextApp]_vars

(***************************************************************************)
(* Properties of the Streamlit session.                                    *)
(***************************************************************************)
\* C19: whichever external call fails while a question is handled, the
\* handling ends with one assistant message appended after the user's turn
\* and no exception leaves the script
C19_NoCrash ==
    (appPc = "ready" /\ lastRun # "") =>
        /\ lastRun = "completed"
        /\ Len(messages) >= 2
        /\ messages[Len(messages)].role = "assistant"
        /\ messages[Len(messages) - 1].role = "user"

\* C20: with the key absent the status is the missing-key error and
\* initialize_chromadb is not called; when initialize_chromadb raises the
\* status is the initialisation error; the status is 'Pronto para consultas.'
\* exactly after the one call of initialize_chromadb with the key returned;
\* no question reaches get_response under another status
C20_StartupGate ==
    /\ Len(initCalls) <= 1
    /\ \A i \in 1..Len(initCalls) : initCalls[i] = API_KEY
    /\ appPc # "boot" =>
          /\ status \in {STATUS_MISSING_KEY, STATUS_READY,
                         StatusInitError("raised_missing"),
                         StatusInitError("raised_corrupt")}
          /\ status = STATUS_MISSING_KEY <=> initCalls = <<>>
          /\ (initCalls # <<>> /\ initRet # "ok") => status = StatusInitError(initRet)
          /\ status = STATUS_READY <=> (initCalls = <<API_KEY>> /\ initRet = "ok")
          /\ status # STATUS_READY => appPc = "stopped" /\ messages = <<>>
    /\ (req.fn = "get_response" \/ appPc \in {"asked", "waiting"}
                                 \/ UserTurns(messages) > 0)
          => status = STATUS_READY

\* a question is inside get_response after a successful start
C20_Witness ==
    /\ appPc = "waiting"
    /\ req.fn = "get_response"
    /\ pc = "gr_context"
    /\ status = STATUS_READY
    /\ initCalls = <<API_KEY>>

\* C21: the history only grows between resets.  A step leaves the history as
\* it is, appends the user's turn (a question was submitted), appends one
\* assistant turn right after the user's turn (the question was handled),
\* both without touching the earlier turns, or replaces it by the single
\* seed greeting (first run and clear_chat_history, from any history); once
\* the session is up the first turn is the assistant greeting
C21_AppendOnly ==
    [][ /\ \/ messages' = messages
           \/ /\ appPc \in {"ready", "asked", "waiting"}
              /\ appPc' = "asked"
              /\ \E prompt \in Prompts :
                    messages' = Append(messages, [role |-> "user", content |-> prompt])
           \/ /\ appPc = "waiting"
              /\ appPc' = "ready"
              /\ Len(messages') = Len(messages) + 1
              /\ SubSeq(messages', 1, Len(messages)) = messages
              /\ messages[Len(messages)].role = "user"
              /\ messages'[Len(messages')].role = "assistant"
           \/ /\ appPc \in {"boot", "ready", "asked", "waiting"}
              /\ appPc' = "ready"
              /\ messages' = <<GREETING>>
        /\ appPc' \in {"ready", "asked", "waiting"} =>
              /\ messages' # <<>>
              /\ messages'[1] = GREETING
              /\ GREETING.role = "assistant"
      ]_vars

\* the history was reset after a question had been answered
C21_Witness ==
    /\ appPc = "ready"
    /\ messages = <<GREETING>>
    /\ req.fn = "get_response"
    /\ pc = "done"
    /\ lastRun = ""

(***************************************************************************)
(* Properties of the forced lookup and of the vector fallback.             *)
(***************************************************************************)
\* a text of the form LC_/LEI_/DECRETO_ with exactly three parts around '_',
\* once trimmed and upper-cased
WellFormedId(text) ==
    LET u == Upper(Strip(text))
    IN /\ \E p \in IdPrefixes : StartsWith(u, p)
       /\ Cardinality({i \in 1..Len(u) : u[i] = "_"}) = 2

\* the entries of the map, in map order, that the running call has to return:
\* those whose ID_UNICO equals the full identifier, or, with no identifier,
\* those whose ID_UNICO holds the bare number somewhere
EntriesToReturn ==
    IF ~loc.target_unique_id.isNone
    THEN SelectSeq(DOCUMENTS_MAP,
             LAMBDA item : item.ID_UNICO = loc.target_unique_id.val)
    ELSE IF ~loc.target_law_number.isNone
    THEN SelectSeq(DOCUMENTS_MAP,
             LAMBDA item : Contains(item.ID_UNICO, loc.target_law_number.val))
    ELSE <<>>

\* the forced parts of the returned context
ForcedPartsReturned ==
    SelectSeq(gcRet.context, LAMBDA x : ~x.sep /\ x.label = "Contexto Forçado")

\* C22: the regex extraction is attempted exactly when the LLM extraction
\* raised or answered a text that is not a well-formed full identifier; never
\* both keys are set; the forced lookup returns exactly the entries equal to
\* the identifier (exact mode) or exactly the entries holding the number as a
\* substring of ID_UNICO (fuzzy mode), and goes on to the vector stage when
\* there is none
C22_ExtractionModes ==
    LookupDone =>
        /\ Occurs(calls, "extract_law_number_from_query")
              <=> (loc.extracted.raised \/ ~WellFormedId(loc.extracted.text))
        /\ loc.target_unique_id.isNone
              <=> Occurs(calls, "extract_law_number_from_query")
        /\ ~loc.target_unique_id.isNone =>
              /\ loc.target_law_number.isNone
              /\ loc.target_unique_id.val = Upper(Strip(loc.extracted.text))
        /\ ~loc.target_law_number.isNone =>
              loc.target_law_number = extract_law_number_from_query(gcArgs.query)
        /\ IF EntriesToReturn # <<>>
           THEN /\ gcRet.returned
                /\ NoVectorStageCall
                /\ PartsOf(gcRet.context) = ForcedPartsReturned
                /\ Len(ForcedPartsReturned) = Len(EntriesToReturn)
                /\ \A j \in 1..Len(EntriesToReturn) :
                      /\ ForcedPartsReturned[j].text = EntriesToReturn[j].text
                      /\ ForcedPartsReturned[j].source = EntriesToReturn[j].fonte
           ELSE /\ ForcedPartsReturned = <<>>
                /\ pc \in {"gc_rewrite", "gc_embed", "gc_search"}
                      \/ Occurs(calls, "rewrite_query")

\* C22 witness: the LLM extraction failed, the regex found 715 in the query,
\* and the lookup returned the chunk of LEI 17150 of 2019 next to the chunk of
\* LC 715 of 2018
C22_Witness ==
    /\ LookupDone
    /\ loc.extracted.raised
    /\ loc.target_law_number = Some(<<"7","1","5">>)
    /\ gcRet.returned
    /\ \E j \in 1..Len(ForcedPartsReturned) :
          ForcedPartsReturned[j].source = "LEI 17150 2019.html"
    /\ \E j \in 1..Len(ForcedPartsReturned) :
          ForcedPartsReturned[j].source = "LEI COMPLEMENTAR 715 2018.html"

\* the law identifier of the document a map entry was cut from
LawOf(item) == normalize_law_id(FonteChars(item.fonte)).unique_id

\* the entries of the map that are chunks of the law the LLM identified
ChunksOfTargetLaw ==
    {i \in 1..Len(DOCUMENTS_MAP) :
        LawOf(DOCUMENTS_MAP[i]) = loc.target_unique_id.val}

\* C23 (as claimed): when the LLM extraction yields the full identifier of a
\* law of the corpus, get_context returns after the lookup and every chunk of
\* the map cut from a document that normalises to that identifier is in the
\* returned context, chunks with an article suffix in ID_UNICO included
C23_AllChunksOfLaw ==
    (/\ LookupDone
     /\ ~loc.target_unique_id.isNone
     /\ ChunksOfTargetLaw # {})
        => /\ gcRet.returned
           /\ NoVectorStageCall
           /\ \A i \in ChunksOfTargetLaw :
                 \E j \in 1..Len(ForcedPartsReturned) :
                    /\ ForcedPartsReturned[j].text = DOCUMENTS_MAP[i].text
                    /\ ForcedPartsReturned[j].source = DOCUMENTS_MAP[i].fonte

\* position of the first call of a name in the call list, 0 when it is absent
FirstCall(name) ==
    IF Occurs(calls, name) THEN SetMin({i \in 1..Len(calls) : calls[i] = name})
    ELSE 0

\* C24: in the vector fallback the rewrite is called once, after a forced
\* lookup that returned nothing and before the embedding; it is given the
\* last four turns at most of the history without its final entry; the search
\* query is the trimmed one-line answer of the rewrite, or the original query
\* when the rewrite call raised; the hint precedes it exactly when a key (full
\* identifier or bare number) had been extracted, and names that key
C24_RewriteOnce ==
    /\ pc \in {"gc_embed", "gc_search"} \/ Occurs(calls, "embed_content")
          => Count(calls, "rewrite_query") = 1
    /\ pc \in {"gc_entry", "gc_rewrite"} => ~Occurs(calls, "rewrite_query")
    /\ Occurs(calls, "rewrite_query") =>
          /\ Count(calls, "rewrite_query") = 1
          /\ LookupDone
          /\ FirstCall("extract_unique_id") < FirstCall("rewrite_query")
          /\ Occurs(calls, "embed_content")
                => FirstCall("rewrite_query") < FirstCall("embed_content")
          /\ EntriesToReturn = <<>>
          /\ ForcedPartsReturned = <<>>
          /\ LET h == gcArgs.history
                 n == Len(loc.context_turns)
             IN /\ n = Min(4, Len(h) - 1)
                /\ \A j \in 1..n : loc.context_turns[j] = h[Len(h) - 1 - n + j]
          /\ loc.search_query = IF loc.rewrite_raised THEN gcArgs.query
                                ELSE <<"l","e","i"," ","7","4","1">>
          /\ ~client => loc.rewrite_raised
          /\ ~loc.hint.isNone
                <=> (~loc.target_unique_id.isNone \/ ~loc.target_law_number.isNone)
          /\ ~loc.target_unique_id.isNone => loc.hint = loc.target_unique_id
          /\ ~loc.target_law_number.isNone => loc.hint = loc.target_law_number

\* C24 witness: an identifier of a law that is not in the map was extracted,
\* the rewrite was given four of the five earlier turns and failed, and the
\* original query goes to the embedding with the hint
C24_Witness ==
    /\ pc = "gc_embed"
    /\ loc.hint = Some(ID_LEI_9_2020)
    /\ Len(gcArgs.history) = 6
    /\ Len(loc.context_turns) = 4
    /\ loc.rewrite_raised
    /\ client
    /\ loc.search_query = gcArgs.query

(***************************************************************************)
(* Further properties of the ingestion run.                                *)
(***************************************************************************)
\* the run has reached the embedding phase or gone beyond it
EmbeddingEntered ==
    \/ ingPc \in {"embed", "build", "write_map", "done", "aborted", "crashed"}
    \/ attempt > 0 \/ batchIdx > 0 \/ embeddings_list # <<>>

\* C25: the files of the previous run are gone before the run writes
\* anything; the whole chunk corpus is on disk before the first embedding
\* request; the index and then the map are written only after every batch was
\* embedded; so an index or map that exists next to the chunk corpus of the
\* run was written by the run itself, also when the run is aborted
C25_PhaseOrder ==
    /\ ingPc \notin {"start", "exited", "cleanup"} =>
          /\ CHUNKS_FILE.exists => "chunks" \in written
          /\ FAISS_FILE.exists => "faiss" \in written
          /\ MAP_FILE.exists => "map" \in written
    /\ written # {} => ingPc \notin {"start", "exited", "cleanup"}
    /\ EmbeddingEntered =>
          /\ "chunks" \in written
          /\ docIdx = Len(docs)
          /\ CHUNKS_FILE.exists /\ CHUNKS_FILE.entries = chunks_data
    /\ "faiss" \in written =>
          /\ "chunks" \in written
          /\ batchIdx = NumBatches(Len(chunks_data), BATCH_SIZE)
          /\ Len(embeddings_list) = Len(chunks_data)
          /\ FAISS_FILE.entries = RowsOf(chunks_data)
    /\ "map" \in written =>
          /\ "faiss" \in written
          /\ Len(MAP_FILE.entries) = Len(chunks_data)
    /\ "chunks" \in written =>
          /\ FAISS_FILE.exists => FAISS_FILE.entries = RowsOf(CHUNKS_FILE.entries)
          /\ MAP_FILE.exists => MAP_FILE.entries = CHUNKS_FILE.entries

\* C25 witness: a run was given up in its second batch with the chunk corpus
\* on disk and neither index nor map
C25_Witness ==
    /\ ingPc \in {"aborted", "crashed"}
    /\ batchIdx = 1
    /\ attempt = EMBED_ATTEMPTS
    /\ CHUNKS_FILE.exists
    /\ Len(CHUNKS_FILE.entries) > BATCH_SIZE
    /\ ~FAISS_FILE.exists /\ ~MAP_FILE.exists

\* the batches of the run, as batch_list slices the texts
BatchesOfRun ==
    [j \in 1..NumBatches(Len(chunks_data), BATCH_SIZE) |->
        batch_list(Texts(chunks_data), BATCH_SIZE, j - 1)]

\* the batches are contiguous runs of 100 texts in corpus order, none empty,
\* only the last shorter; the vectors received are those of the first
\* batchIdx batches in order; no batch is attempted more than five times
BatchesInOrder ==
    ingPc \in {"embed", "build", "write_map", "done", "aborted", "crashed"} =>
        LET texts == Texts(chunks_data)
            batches == BatchesOfRun
            nb == Len(batches)
        IN /\ \A j \in 1..nb :
                 /\ Len(batches[j]) >= 1
                 /\ Len(batches[j]) <= BATCH_SIZE
                 /\ j < nb => Len(batches[j]) = BATCH_SIZE
                 /\ batches[j] = SubSeq(texts, (j - 1) * BATCH_SIZE + 1,
                                        (j - 1) * BATCH_SIZE + Len(batches[j]))
           /\ Len(texts) <= nb * BATCH_SIZE
           /\ Len(texts) > (nb - 1) * BATCH_SIZE
           /\ batchIdx <= nb
           /\ Len(embeddings_list) = Min(batchIdx * BATCH_SIZE, Len(texts))
           /\ embeddings_list = RowsOf(SubSeq(chunks_data, 1, Len(embeddings_list)))
           /\ attempt <= EMBED_ATTEMPTS
           /\ attempt = EMBED_ATTEMPTS => ingPc \in {"aborted", "crashed"}
           /\ ingPc \in {"build", "write_map", "done"} =>
                 Len(embeddings_list) = Len(chunks_data)

\* C26: the batches partition the chunk list into contiguous runs of 100 in
\* corpus order; a batch is requested only after the one before it succeeded,
\* its vectors are appended in batch order, and its attempts are counted from
\* zero, five at most; and whatever the service does, the embedding phase
\* ends, with one vector per chunk or with the run given up
C26_BatchesTerminate ==
    /\ []BatchesInOrder
    /\ [][ /\ batchIdx' \in {batchIdx, batchIdx + 1}
           /\ batchIdx' = batchIdx + 1 =>
                 /\ attempt' = 0
                 /\ LET batch == BatchesOfRun[batchIdx']
                    IN embeddings_list' = embeddings_list \o
                          [i \in 1..Len(batch) |-> Vec(batch[i])]
           /\ batchIdx' = batchIdx =>
                 /\ embeddings_list' = embeddings_list
                 /\ attempt' \in {attempt, attempt + 1}
         ]_vars
    /\ (ingPc = "embed") ~>
          \/ ingPc = "build" /\ Len(embeddings_list) = Len(chunks_data)
          \/ ingPc \in {"aborted", "crashed"}

\* C26 witness: two full batches were embedded and the third, shorter, batch
\* has failed four times
C26_Witness ==
    /\ ingPc = "embed"
    /\ Len(chunks_data) = 2 * BATCH_SIZE + 1
    /\ batchIdx = 2
    /\ attempt = EMBED_ATTEMPTS - 1
    /\ Len(embeddings_list) = 2 * BATCH_SIZE

\* number of chunks of the documents that precede the d-th document
RECURSIVE ChunksBefore(_)
ChunksBefore(d) ==
    IF d <= 1 THEN 0 ELSE ChunksBefore(d - 1) + Len(docs[d - 1].chunks)

\* C27: the chunks collected so far are numbered doc_1, doc_2, ... in list
\* order, the counter being one past the last; the chunks of the documents
\* processed so far follow each other in walk order, a document without text
\* adding none and using no number; within a document chunk_index counts
\* from 0 in chunk order; ID_UNICO starts with the identifier that
\* normalize_law_id gives for the file name of the chunk
C27_SequentialIds ==
    /\ id_counter = Len(chunks_data) + 1
    /\ \A i \in 1..Len(chunks_data) : chunks_data[i].id = <<"doc", i>>
    /\ Len(chunks_data) = ChunksBefore(docIdx + 1)
    /\ \A d \in 1..docIdx :
          LET first == ChunksBefore(d)
              base == normalize_law_id(FonteChars(docs[d].fonte)).unique_id
          IN \A j \in 1..Len(docs[d].chunks) :
                /\ chunks_data[first + j].text = docs[d].chunks[j].text
                /\ chunks_data[first + j].fonte = docs[d].fonte
                /\ chunks_data[first + j].chunk_index = j - 1
                /\ StartsWith(chunks_data[first + j].ID_UNICO, base)

\* C27 witness: phase 1 is over for a document without text followed by a
\* document of 101 chunks
C27_Witness ==
    /\ ingPc = "embed"
    /\ Len(docs) = 2
    /\ docs[1].chunks = <<>>
    /\ Len(chunks_data) = BATCH_SIZE + 1
    /\ chunks_data[1].id = <<"doc", 1>>
    /\ chunks_data[2].ID_UNICO # chunks_data[1].ID_UNICO

\* the rows the search returned that are positions of the map
NeighboursInMap ==
    SelectSeq(loc.indices, LAMBDA x : 0 <= x /\ x < Len(DOCUMENTS_MAP))

\* C28 (as claimed): after the vector search the context holds one part for
\* each returned row i with 0 <= i < len(DOCUMENTS_MAP), in the order
\* returned, taken from the map entry at position i, and the sources are
\* those of these entries; a row outside that range, the filler -1 included,
\* adds neither a part nor a source
C28_OnlyNeighbours ==
    (loc.indices # <<>> /\ gcRet.returned /\ ~gcRet.raised) =>
        /\ Len(PartsOf(gcRet.context)) = Len(NeighboursInMap)
        /\ \A j \in 1..Len(NeighboursInMap) :
              /\ PartsOf(gcRet.context)[j].text =
                    DOCUMENTS_MAP[NeighboursInMap[j] + 1].text
              /\ PartsOf(gcRet.context)[j].source =
                    DOCUMENTS_MAP[NeighboursInMap[j] + 1].fonte
        /\ gcRet.sources =
              {DOCUMENTS_MAP[NeighboursInMap[j] + 1].fonte :
                  j \in 1..Len(NeighboursInMap)}

(***************************************************************************)
(* Properties of the initialisation of the service.                        *)
(***************************************************************************)
\* C29 (as claimed): whenever VECTOR_INDEX is set, the document map is the
\* content of the map file and the client is initialised; a call of
\* initialize_chromadb that raised has left VECTOR_INDEX unset; a call that
\* returned has left the map loaded and the client initialised
C29_AllOrNothing ==
    /\ VECTOR_INDEX.set =>
          /\ MAP_FILE.exists /\ MAP_FILE.ok
          /\ DOCUMENTS_MAP = MAP_FILE.entries
          /\ client
    /\ initRet \in {"raised_missing", "raised_corrupt"} => ~VECTOR_INDEX.set
    /\ initRet = "ok" =>
          /\ VECTOR_INDEX.set
          /\ DOCUMENTS_MAP = MAP_FILE.entries
          /\ client

(***************************************************************************)
(* Further properties of the chunker.                                      *)
(***************************************************************************)
\* " ".join(parts) for strings made of pieces
RECURSIVE JoinWithSpace(_)
JoinWithSpace(parts) ==
    IF parts = <<>> THEN <<>>
    ELSE IF Len(parts) = 1 THEN parts[1]
    ELSE parts[1] \o <<SpacePiece>> \o JoinWithSpace(Tail(parts))

\* C30: the contents of the returned chunks (each chunk without its leading
\* header), joined in chunk order by single blanks, are the input sentences
\* in their order joined by single blanks; every sentence is in exactly one
\* chunk, and no chunk is without a sentence
C30_NothingLost ==
    chunkCall.done =>
        LET ret == chunkCall.ret
            sentences == chunkCall.args.sentences
        IN /\ JoinWithSpace([c \in 1..Len(ret) |-> ContentOf(ret[c])])
                 = JoinWithSpace([i \in 1..Len(sentences) |-> <<sentences[i]>>])
           /\ \A c \in 1..Len(ret) : ret[c][1].kind = "header"
           /\ \A i \in 1..Len(sentences) :
                 /\ Cardinality({c \in 1..Len(ret) : HoldsSentence(ret[c], i)}) = 1
                 /\ \A c \in 1..Len(ret) :
                       Cardinality({j \in 1..Len(ret[c]) :
                           ret[c][j] = sentences[i]}) <= 1
           /\ \A c \in 1..Len(ret) :
                 \E i \in 1..Len(sentences) : HoldsSentence(ret[c], i)

\* C30 witness: three sentences were cut into two chunks by two breaks and
\* the merge of a final sentence of 256 characters
C30_Witness ==
    /\ chunkCall.done
    /\ chunkCall.args.sentences = Sentences(<<304, 309, 256>>)
    /\ chunkCall.args.max_chunk_size = 400
    /\ Len(AtExhaustion.optimized_chunks) = 2
    /\ Len(chunkCall.ret) = 2
    /\ HoldsSentence(chunkCall.ret[2], 3)

====
